---- MODULE Spec2Model ----
(***************************************************************************)
(* OV5640 camera sensor driver (src/ov5640.c).                             *)
(*                                                                         *)
(* State: the driver handle (OV5640_Object_t), the registers of the sensor *)
(* that the driver reads back, and the record of the call in progress or   *)
(* just returned (its arguments, return value, outputs and the bus         *)
(* transactions it issued, in order).  The driver is synchronous and       *)
(* single threaded: a call runs to completion, the caller takes the result *)
(* (Return) and only then issues the next call.                            *)
(*                                                                         *)
(* The register bus is the environment.  Each bus transaction of a call    *)
(* returns a status chosen by the environment: the "fault plan" of a call  *)
(* maps the index of a transaction within the call to a non-OK status.     *)
(* Registers the sensor firmware updates on its own (the autofocus status  *)
(* registers) read a value chosen by the environment.                      *)
(***************************************************************************)
EXTENDS Integers, Sequences, FiniteSets, TLC

VARIABLES obj, regs, call

vars == <<obj, regs, call>>

----------------------------------------------------------------------------
(* Status codes and enumerations of ov5640.h *)

OV5640_OK == 0
OV5640_ERROR == -1

OV5640_R160x120 == 0
OV5640_R320x240 == 1
OV5640_R480x272 == 2
OV5640_R640x480 == 3
OV5640_R800x480 == 4

OV5640_RGB565 == "OV5640_RGB565"
OV5640_YUV422 == "OV5640_YUV422"
OV5640_RGB888 == "OV5640_RGB888"
OV5640_Y8 == "OV5640_Y8"
OV5640_JPEG == "OV5640_JPEG"

PARALLEL_MODE == "PARALLEL_MODE"
SERIAL_MODE == "SERIAL_MODE"

OV5640_POLARITY_PCLK_LOW == 0
OV5640_POLARITY_PCLK_HIGH == 1
OV5640_POLARITY_HREF_LOW == 0
OV5640_POLARITY_HREF_HIGH == 1
OV5640_POLARITY_VSYNC_LOW == 1
OV5640_POLARITY_VSYNC_HIGH == 0

----------------------------------------------------------------------------
(* Byte arithmetic *)

Bit(x, i) == (x \div (2 ^ i)) % 2

Or8(a, b) ==
  LET t(i) == IF Bit(a, i) = 1 \/ Bit(b, i) = 1 THEN 2 ^ i ELSE 0
  IN  t(0) + t(1) + t(2) + t(3) + t(4) + t(5) + t(6) + t(7)

And8(a, b) ==
  LET t(i) == IF Bit(a, i) = 1 /\ Bit(b, i) = 1 THEN 2 ^ i ELSE 0
  IN  t(0) + t(1) + t(2) + t(3) + t(4) + t(5) + t(6) + t(7)

Xor8(a, b) ==
  LET t(i) == IF Bit(a, i) # Bit(b, i) THEN 2 ^ i ELSE 0
  IN  t(0) + t(1) + t(2) + t(3) + t(4) + t(5) + t(6) + t(7)

U8(x) == x % 256

SetMin(S) == CHOOSE x \in S : \A y \in S : x <= y

SetMax(S) == CHOOSE x \in S : \A y \in S : y <= x

----------------------------------------------------------------------------
(* Register tables, transcribed entry by entry from the source *)

\* OV5640_Init: common register table (src/ov5640.c:139-386), 246 entries
OV5640_Common == <<
    <<"OV5640_SCCB_SYSTEM_CTRL1", 17>>, <<"OV5640_SYSTEM_CTROL0", 130>>, <<"OV5640_SCCB_SYSTEM_CTRL1", 3>>,
    <<"0x3630", 54>>, <<"0x3631", 14>>, <<"0x3632", 226>>,
    <<"0x3633", 18>>, <<"0x3621", 224>>, <<"0x3704", 160>>,
    <<"0x3703", 90>>, <<"0x3715", 120>>, <<"0x3717", 1>>,
    <<"0x370b", 96>>, <<"0x3705", 26>>, <<"0x3905", 2>>,
    <<"0x3906", 16>>, <<"0x3901", 10>>, <<"0x3731", 18>>,
    <<"0x3600", 8>>, <<"0x3601", 51>>, <<"0x302d", 96>>,
    <<"0x3620", 82>>, <<"0x371b", 32>>, <<"0x471c", 80>>,
    <<"OV5640_AEC_CTRL13", 67>>, <<"OV5640_AEC_GAIN_CEILING_HIGH", 0>>, <<"OV5640_AEC_GAIN_CEILING_LOW", 248>>,
    <<"0x3635", 19>>, <<"0x3636", 3>>, <<"0x3634", 64>>,
    <<"0x3622", 1>>, <<"OV5640_5060HZ_CTRL01", 52>>, <<"OV5640_5060HZ_CTRL04", 40>>,
    <<"OV5640_5060HZ_CTRL05", 152>>, <<"OV5640_LIGHTMETER1_TH_HIGH", 0>>, <<"OV5640_LIGHTMETER1_TH_LOW", 0>>,
    <<"OV5640_LIGHTMETER2_TH_HIGH", 1>>, <<"OV5640_LIGHTMETER2_TH_LOW", 44>>, <<"OV5640_SAMPLE_NUMBER_HIGH", 156>>,
    <<"OV5640_SAMPLE_NUMBER_LOW", 64>>, <<"OV5640_TIMING_TC_REG20", 6>>, <<"OV5640_TIMING_TC_REG21", 0>>,
    <<"OV5640_TIMING_X_INC", 49>>, <<"OV5640_TIMING_Y_INC", 49>>, <<"OV5640_TIMING_HS_HIGH", 0>>,
    <<"OV5640_TIMING_HS_LOW", 0>>, <<"OV5640_TIMING_VS_HIGH", 0>>, <<"OV5640_TIMING_VS_LOW", 4>>,
    <<"OV5640_TIMING_HW_HIGH", 10>>, <<"OV5640_TIMING_HW_LOW", 63>>, <<"OV5640_TIMING_VH_HIGH", 7>>,
    <<"OV5640_TIMING_VH_LOW", 155>>, <<"OV5640_TIMING_DVPHO_HIGH", 3>>, <<"OV5640_TIMING_DVPHO_LOW", 32>>,
    <<"OV5640_TIMING_DVPVO_HIGH", 2>>, <<"OV5640_TIMING_DVPVO_LOW", 88>>, <<"OV5640_TIMING_HTS_HIGH", 7>>,
    <<"OV5640_TIMING_HTS_LOW", 144>>, <<"OV5640_TIMING_VTS_HIGH", 4>>, <<"OV5640_TIMING_VTS_LOW", 64>>,
    <<"OV5640_TIMING_HOFFSET_HIGH", 0>>, <<"OV5640_TIMING_HOFFSET_LOW", 16>>, <<"OV5640_TIMING_VOFFSET_HIGH", 0>>,
    <<"OV5640_TIMING_VOFFSET_LOW", 6>>, <<"0x3618", 0>>, <<"0x3612", 41>>,
    <<"0x3708", 100>>, <<"0x3709", 82>>, <<"0x370c", 3>>,
    <<"OV5640_AEC_CTRL02", 3>>, <<"OV5640_AEC_CTRL03", 216>>, <<"OV5640_AEC_B50_STEP_HIGH", 1>>,
    <<"OV5640_AEC_B50_STEP_LOW", 39>>, <<"OV5640_AEC_B60_STEP_HIGH", 0>>, <<"OV5640_AEC_B60_STEP_LOW", 246>>,
    <<"OV5640_AEC_CTRL0E", 3>>, <<"OV5640_AEC_CTRL0D", 4>>, <<"OV5640_AEC_MAX_EXPO_HIGH", 3>>,
    <<"OV5640_AEC_MAX_EXPO_LOW", 216>>, <<"OV5640_BLC_CTRL01", 2>>, <<"OV5640_BLC_CTRL04", 2>>,
    <<"OV5640_SYSREM_RESET00", 0>>, <<"OV5640_SYSREM_RESET02", 28>>, <<"OV5640_CLOCK_ENABLE00", 255>>,
    <<"OV5640_CLOCK_ENABLE02", 195>>, <<"OV5640_MIPI_CONTROL00", 88>>, <<"0x302e", 0>>,
    <<"OV5640_POLARITY_CTRL", 34>>, <<"OV5640_FORMAT_CTRL00", 111>>, <<"OV5640_FORMAT_MUX_CTRL", 1>>,
    <<"OV5640_JPG_MODE_SELECT", 3>>, <<"OV5640_JPEG_CTRL07", 4>>, <<"0x440e", 0>>,
    <<"0x460b", 53>>, <<"0x460c", 35>>, <<"OV5640_PCLK_PERIOD", 34>>,
    <<"0x3824", 2>>, <<"OV5640_ISP_CONTROL00", 167>>, <<"OV5640_ISP_CONTROL01", 163>>,
    <<"OV5640_AWB_CTRL00", 255>>, <<"OV5640_AWB_CTRL01", 242>>, <<"OV5640_AWB_CTRL02", 0>>,
    <<"OV5640_AWB_CTRL03", 20>>, <<"OV5640_AWB_CTRL04", 37>>, <<"OV5640_AWB_CTRL05", 36>>,
    <<"OV5640_AWB_CTRL06", 9>>, <<"OV5640_AWB_CTRL07", 9>>, <<"OV5640_AWB_CTRL08", 9>>,
    <<"OV5640_AWB_CTRL09", 117>>, <<"OV5640_AWB_CTRL10", 84>>, <<"OV5640_AWB_CTRL11", 224>>,
    <<"OV5640_AWB_CTRL12", 178>>, <<"OV5640_AWB_CTRL13", 66>>, <<"OV5640_AWB_CTRL14", 61>>,
    <<"OV5640_AWB_CTRL15", 86>>, <<"OV5640_AWB_CTRL16", 70>>, <<"OV5640_AWB_CTRL17", 248>>,
    <<"OV5640_AWB_CTRL18", 4>>, <<"OV5640_AWB_CTRL19", 112>>, <<"OV5640_AWB_CTRL20", 240>>,
    <<"OV5640_AWB_CTRL21", 240>>, <<"OV5640_AWB_CTRL22", 3>>, <<"OV5640_AWB_CTRL23", 1>>,
    <<"OV5640_AWB_CTRL24", 4>>, <<"OV5640_AWB_CTRL25", 18>>, <<"OV5640_AWB_CTRL26", 4>>,
    <<"OV5640_AWB_CTRL27", 0>>, <<"OV5640_AWB_CTRL28", 6>>, <<"OV5640_AWB_CTRL29", 130>>,
    <<"OV5640_AWB_CTRL30", 56>>, <<"OV5640_CMX1", 30>>, <<"OV5640_CMX2", 91>>,
    <<"OV5640_CMX3", 8>>, <<"OV5640_CMX4", 10>>, <<"OV5640_CMX5", 126>>,
    <<"OV5640_CMX6", 136>>, <<"OV5640_CMX7", 124>>, <<"OV5640_CMX8", 108>>,
    <<"OV5640_CMX9", 16>>, <<"OV5640_CMXSIGN_HIGH", 1>>, <<"OV5640_CMXSIGN_LOW", 152>>,
    <<"OV5640_CIP_SHARPENMT_TH1", 8>>, <<"OV5640_CIP_SHARPENMT_TH2", 48>>, <<"OV5640_CIP_SHARPENMT_OFFSET1", 16>>,
    <<"OV5640_CIP_SHARPENMT_OFFSET2", 0>>, <<"OV5640_CIP_DNS_TH1", 8>>, <<"OV5640_CIP_DNS_TH2", 48>>,
    <<"OV5640_CIP_DNS_OFFSET1", 8>>, <<"OV5640_CIP_DNS_OFFSET2", 22>>, <<"OV5640_CIP_CTRL", 8>>,
    <<"OV5640_CIP_SHARPENTH_TH1", 48>>, <<"OV5640_CIP_SHARPENTH_TH2", 4>>, <<"OV5640_CIP_SHARPENTH_OFFSET1", 6>>,
    <<"OV5640_GAMMA_CTRL00", 1>>, <<"OV5640_GAMMA_YST00", 8>>, <<"OV5640_GAMMA_YST01", 20>>,
    <<"OV5640_GAMMA_YST02", 40>>, <<"OV5640_GAMMA_YST03", 81>>, <<"OV5640_GAMMA_YST04", 101>>,
    <<"OV5640_GAMMA_YST05", 113>>, <<"OV5640_GAMMA_YST06", 125>>, <<"OV5640_GAMMA_YST07", 135>>,
    <<"OV5640_GAMMA_YST08", 145>>, <<"OV5640_GAMMA_YST09", 154>>, <<"OV5640_GAMMA_YST0A", 170>>,
    <<"OV5640_GAMMA_YST0B", 184>>, <<"OV5640_GAMMA_YST0C", 205>>, <<"OV5640_GAMMA_YST0D", 221>>,
    <<"OV5640_GAMMA_YST0E", 234>>, <<"OV5640_GAMMA_YST0F", 29>>, <<"OV5640_SDE_CTRL0", 2>>,
    <<"OV5640_SDE_CTRL3", 64>>, <<"OV5640_SDE_CTRL4", 16>>, <<"OV5640_SDE_CTRL9", 16>>,
    <<"OV5640_SDE_CTRL10", 0>>, <<"OV5640_SDE_CTRL11", 248>>, <<"OV5640_GMTRX00", 35>>,
    <<"OV5640_GMTRX01", 20>>, <<"OV5640_GMTRX02", 15>>, <<"OV5640_GMTRX03", 15>>,
    <<"OV5640_GMTRX04", 18>>, <<"OV5640_GMTRX05", 38>>, <<"OV5640_GMTRX10", 12>>,
    <<"OV5640_GMTRX11", 8>>, <<"OV5640_GMTRX12", 5>>, <<"OV5640_GMTRX13", 5>>,
    <<"OV5640_GMTRX14", 8>>, <<"OV5640_GMTRX15", 13>>, <<"OV5640_GMTRX20", 8>>,
    <<"OV5640_GMTRX21", 3>>, <<"OV5640_GMTRX22", 0>>, <<"OV5640_GMTRX23", 0>>,
    <<"OV5640_GMTRX24", 3>>, <<"OV5640_GMTRX25", 9>>, <<"OV5640_GMTRX30", 7>>,
    <<"OV5640_GMTRX31", 3>>, <<"OV5640_GMTRX32", 0>>, <<"OV5640_GMTRX33", 1>>,
    <<"OV5640_GMTRX34", 3>>, <<"OV5640_GMTRX35", 8>>, <<"OV5640_GMTRX40", 13>>,
    <<"OV5640_GMTRX41", 8>>, <<"OV5640_GMTRX42", 5>>, <<"OV5640_GMTRX43", 6>>,
    <<"OV5640_GMTRX44", 8>>, <<"OV5640_GMTRX45", 14>>, <<"OV5640_GMTRX50", 41>>,
    <<"OV5640_GMTRX51", 23>>, <<"OV5640_GMTRX52", 17>>, <<"OV5640_GMTRX53", 17>>,
    <<"OV5640_GMTRX54", 21>>, <<"OV5640_GMTRX55", 40>>, <<"OV5640_BRMATRX00", 70>>,
    <<"OV5640_BRMATRX01", 38>>, <<"OV5640_BRMATRX02", 8>>, <<"OV5640_BRMATRX03", 38>>,
    <<"OV5640_BRMATRX04", 100>>, <<"OV5640_BRMATRX05", 38>>, <<"OV5640_BRMATRX06", 36>>,
    <<"OV5640_BRMATRX07", 34>>, <<"OV5640_BRMATRX08", 36>>, <<"OV5640_BRMATRX09", 36>>,
    <<"OV5640_BRMATRX20", 6>>, <<"OV5640_BRMATRX21", 34>>, <<"OV5640_BRMATRX22", 64>>,
    <<"OV5640_BRMATRX23", 66>>, <<"OV5640_BRMATRX24", 36>>, <<"OV5640_BRMATRX30", 38>>,
    <<"OV5640_BRMATRX31", 36>>, <<"OV5640_BRMATRX32", 34>>, <<"OV5640_BRMATRX33", 34>>,
    <<"OV5640_BRMATRX34", 38>>, <<"OV5640_BRMATRX40", 68>>, <<"OV5640_BRMATRX41", 36>>,
    <<"OV5640_BRMATRX42", 38>>, <<"OV5640_BRMATRX43", 40>>, <<"OV5640_BRMATRX44", 66>>,
    <<"OV5640_LENC_BR_OFFSET", 206>>, <<"0x5025", 0>>, <<"OV5640_AEC_CTRL0F", 48>>,
    <<"OV5640_AEC_CTRL10", 40>>, <<"OV5640_AEC_CTRL1B", 48>>, <<"OV5640_AEC_CTRL1E", 38>>,
    <<"OV5640_AEC_CTRL11", 96>>, <<"OV5640_AEC_CTRL1F", 20>>, <<"OV5640_SYSTEM_CTROL0", 2>>
  >>

\* OV5640_SetPixelFormat: RGB565 table (src/ov5640.c:480-485), 2 entries
OV5640_PF_RGB565 == <<
    <<"OV5640_FORMAT_CTRL00", 111>>, <<"OV5640_FORMAT_MUX_CTRL", 1>>
  >>

\* OV5640_SetPixelFormat: YUV422 table (src/ov5640.c:488-493), 2 entries
OV5640_PF_YUV422 == <<
    <<"OV5640_FORMAT_CTRL00", 48>>, <<"OV5640_FORMAT_MUX_CTRL", 0>>
  >>

\* OV5640_SetPixelFormat: RGB888 table (src/ov5640.c:496-501), 2 entries
OV5640_PF_RGB888 == <<
    <<"OV5640_FORMAT_CTRL00", 35>>, <<"OV5640_FORMAT_MUX_CTRL", 1>>
  >>

\* OV5640_SetPixelFormat: Y8 table (src/ov5640.c:504-509), 2 entries
OV5640_PF_Y8 == <<
    <<"OV5640_FORMAT_CTRL00", 16>>, <<"OV5640_FORMAT_MUX_CTRL", 0>>
  >>

\* OV5640_SetPixelFormat: JPEG table (src/ov5640.c:512-517), 2 entries
OV5640_PF_JPEG == <<
    <<"OV5640_FORMAT_CTRL00", 48>>, <<"OV5640_FORMAT_MUX_CTRL", 0>>
  >>

\* OV5640_SetResolution: 800x480 table (src/ov5640.c:663-669), 4 entries
OV5640_WVGA == <<
    <<"OV5640_TIMING_DVPHO_HIGH", 3>>, <<"OV5640_TIMING_DVPHO_LOW", 32>>, <<"OV5640_TIMING_DVPVO_HIGH", 1>>,
    <<"OV5640_TIMING_DVPVO_LOW", 224>>
  >>

\* OV5640_SetResolution: 640x480 table (src/ov5640.c:672-678), 4 entries
OV5640_VGA == <<
    <<"OV5640_TIMING_DVPHO_HIGH", 2>>, <<"OV5640_TIMING_DVPHO_LOW", 128>>, <<"OV5640_TIMING_DVPVO_HIGH", 1>>,
    <<"OV5640_TIMING_DVPVO_LOW", 224>>
  >>

\* OV5640_SetResolution: 480x272 table (src/ov5640.c:681-687), 4 entries
OV5640_480x272 == <<
    <<"OV5640_TIMING_DVPHO_HIGH", 1>>, <<"OV5640_TIMING_DVPHO_LOW", 224>>, <<"OV5640_TIMING_DVPVO_HIGH", 1>>,
    <<"OV5640_TIMING_DVPVO_LOW", 16>>
  >>

\* OV5640_SetResolution: 320x240 table (src/ov5640.c:690-696), 4 entries
OV5640_QVGA == <<
    <<"OV5640_TIMING_DVPHO_HIGH", 1>>, <<"OV5640_TIMING_DVPHO_LOW", 64>>, <<"OV5640_TIMING_DVPVO_HIGH", 0>>,
    <<"OV5640_TIMING_DVPVO_LOW", 240>>
  >>

\* OV5640_SetResolution: 160x120 table (src/ov5640.c:699-705), 4 entries
OV5640_QQVGA == <<
    <<"OV5640_TIMING_DVPHO_HIGH", 0>>, <<"OV5640_TIMING_DVPHO_LOW", 160>>, <<"OV5640_TIMING_DVPVO_HIGH", 0>>,
    <<"OV5640_TIMING_DVPVO_LOW", 120>>
  >>

\* OV5640_EnableDVPMode: regs table (src/ov5640.c:1798-1812), 10 entries
DVPMode_regs == <<
    <<"OV5640_PAD_OUTPUT_ENABLE01", 255>>, <<"OV5640_PAD_OUTPUT_ENABLE02", 243>>, <<"0x302e", 0>>,
    <<"0x471c", 80>>, <<"OV5640_MIPI_CONTROL00", 88>>, <<"OV5640_SC_PLL_CONTRL0", 24>>,
    <<"OV5640_SC_PLL_CONTRL1", 65>>, <<"OV5640_SC_PLL_CONTRL2", 96>>, <<"OV5640_SC_PLL_CONTRL3", 19>>,
    <<"OV5640_SYSTEM_ROOT_DIVIDER", 1>>
  >>

\* OV5640_EnableMIPIMode: regs table (src/ov5640.c:1861-1879), 14 entries
MIPIMode_regs == <<
    <<"OV5640_PAD_OUTPUT_ENABLE01", 0>>, <<"OV5640_PAD_OUTPUT_ENABLE02", 0>>, <<"0x302e", 8>>,
    <<"OV5640_PCLK_PERIOD", 35>>, <<"OV5640_SC_PLL_CONTRL0", 24>>, <<"OV5640_SC_PLL_CONTRL1", 18>>,
    <<"OV5640_SC_PLL_CONTRL2", 28>>, <<"OV5640_SC_PLL_CONTRL3", 19>>, <<"OV5640_SYSTEM_ROOT_DIVIDER", 1>>,
    <<"0x4814", 42>>, <<"OV5640_MIPI_CTRL00", 36>>, <<"OV5640_PAD_OUTPUT_VALUE00", 112>>,
    <<"OV5640_MIPI_CONTROL00", 69>>, <<"OV5640_FRAME_CTRL02", 0>>
  >>
----------------------------------------------------------------------------
(* Further register tables.  A register the source names by its address is
   recorded by that address, in lower-case hexadecimal. *)

\* OV5640_LightModeAuto (src/ov5640.c:978-987), 7 entries
OV5640_LightModeAuto == <<
    <<"OV5640_AWB_MANUAL_CONTROL", 0>>, <<"OV5640_AWB_R_GAIN_MSB", 4>>, <<"OV5640_AWB_R_GAIN_LSB", 0>>,
    <<"OV5640_AWB_G_GAIN_MSB", 4>>, <<"OV5640_AWB_G_GAIN_LSB", 0>>, <<"OV5640_AWB_B_GAIN_MSB", 4>>,
    <<"OV5640_AWB_B_GAIN_LSB", 0>>
  >>

\* OV5640_LightModeCloudy (src/ov5640.c:989-998), 7 entries
OV5640_LightModeCloudy == <<
    <<"OV5640_AWB_MANUAL_CONTROL", 1>>, <<"OV5640_AWB_R_GAIN_MSB", 6>>, <<"OV5640_AWB_R_GAIN_LSB", 72>>,
    <<"OV5640_AWB_G_GAIN_MSB", 4>>, <<"OV5640_AWB_G_GAIN_LSB", 0>>, <<"OV5640_AWB_B_GAIN_MSB", 4>>,
    <<"OV5640_AWB_B_GAIN_LSB", 211>>
  >>

\* OV5640_LightModeOffice (src/ov5640.c:1000-1009), 7 entries
OV5640_LightModeOffice == <<
    <<"OV5640_AWB_MANUAL_CONTROL", 1>>, <<"OV5640_AWB_R_GAIN_MSB", 5>>, <<"OV5640_AWB_R_GAIN_LSB", 72>>,
    <<"OV5640_AWB_G_GAIN_MSB", 4>>, <<"OV5640_AWB_G_GAIN_LSB", 0>>, <<"OV5640_AWB_B_GAIN_MSB", 7>>,
    <<"OV5640_AWB_B_GAIN_LSB", 207>>
  >>

\* OV5640_LightModeHome (src/ov5640.c:1011-1020), 7 entries
OV5640_LightModeHome == <<
    <<"OV5640_AWB_MANUAL_CONTROL", 1>>, <<"OV5640_AWB_R_GAIN_MSB", 4>>, <<"OV5640_AWB_R_GAIN_LSB", 16>>,
    <<"OV5640_AWB_G_GAIN_MSB", 4>>, <<"OV5640_AWB_G_GAIN_LSB", 0>>, <<"OV5640_AWB_B_GAIN_MSB", 8>>,
    <<"OV5640_AWB_B_GAIN_LSB", 182>>
  >>

\* OV5640_LightModeSunny (src/ov5640.c:1022-1031), 7 entries
OV5640_LightModeSunny == <<
    <<"OV5640_AWB_MANUAL_CONTROL", 1>>, <<"OV5640_AWB_R_GAIN_MSB", 6>>, <<"OV5640_AWB_R_GAIN_LSB", 28>>,
    <<"OV5640_AWB_G_GAIN_MSB", 4>>, <<"OV5640_AWB_G_GAIN_LSB", 0>>, <<"OV5640_AWB_B_GAIN_MSB", 4>>,
    <<"OV5640_AWB_B_GAIN_LSB", 243>>
  >>

\* OV5640_jpeg_reg_tbl (src/ov5640.c:2218-2264), 41 entries
OV5640_jpeg_reg_tbl == <<
    <<"0x4300", 48>>, <<"0x501f", 0>>, <<"0x3035", 33>>,
    <<"0x3036", 105>>, <<"0x3c07", 7>>, <<"0x3820", 70>>,
    <<"0x3821", 32>>, <<"0x3814", 17>>, <<"0x3815", 17>>,
    <<"0x3800", 0>>, <<"0x3801", 0>>, <<"0x3802", 0>>,
    <<"0x3803", 0>>, <<"0x3804", 10>>, <<"0x3805", 63>>,
    <<"0x3806", 7>>, <<"0x3807", 159>>, <<"0x3808", 2>>,
    <<"0x3809", 128>>, <<"0x380a", 1>>, <<"0x380b", 224>>,
    <<"0x380c", 11>>, <<"0x380d", 28>>, <<"0x380e", 7>>,
    <<"0x380f", 176>>, <<"0x3813", 4>>, <<"0x3618", 4>>,
    <<"0x3612", 43>>, <<"0x3709", 18>>, <<"0x370c", 0>>,
    <<"0x4004", 6>>, <<"0x3002", 0>>, <<"0x3006", 255>>,
    <<"0x4713", 3>>, <<"0x4407", 1>>, <<"0x460b", 53>>,
    <<"0x460c", 34>>, <<"0x4837", 22>>, <<"0x3824", 2>>,
    <<"0x5001", 163>>, <<"0x3503", 0>>
  >>

\* ov5640_rgb565_reg_tbl (src/ov5640.c:2266-2315), 45 entries
ov5640_rgb565_reg_tbl == <<
    <<"0x4300", 111>>, <<"0x501f", 1>>, <<"0x3035", 65>>,
    <<"0x3036", 105>>, <<"0x3c07", 7>>, <<"0x3820", 70>>,
    <<"0x3821", 0>>, <<"0x3814", 49>>, <<"0x3815", 49>>,
    <<"0x3800", 0>>, <<"0x3801", 0>>, <<"0x3802", 0>>,
    <<"0x3803", 0>>, <<"0x3804", 10>>, <<"0x3805", 63>>,
    <<"0x3806", 6>>, <<"0x3807", 169>>, <<"0x3808", 5>>,
    <<"0x3809", 0>>, <<"0x380a", 2>>, <<"0x380b", 208>>,
    <<"0x380c", 5>>, <<"0x380d", 248>>, <<"0x380e", 3>>,
    <<"0x380f", 132>>, <<"0x3813", 4>>, <<"0x3618", 0>>,
    <<"0x3612", 41>>, <<"0x3709", 82>>, <<"0x370c", 3>>,
    <<"0x3a02", 2>>, <<"0x3a03", 224>>, <<"0x3a14", 2>>,
    <<"0x3a15", 224>>, <<"0x4004", 2>>, <<"0x3002", 28>>,
    <<"0x3006", 195>>, <<"0x4713", 3>>, <<"0x4407", 4>>,
    <<"0x460b", 55>>, <<"0x460c", 32>>, <<"0x4837", 22>>,
    <<"0x3824", 4>>, <<"0x5001", 163>>, <<"0x3503", 0>>
  >>
----------------------------------------------------------------------------
(* The tables of the general mode *)

\* ov5640_uxga_init_reg_tbl, 207 entries
ov5640_uxga_init_reg_tbl == <<
    <<"0x3008", 66>>, <<"0x3103", 3>>, <<"0x3017", 255>>, <<"0x3018", 255>>, <<"0x3034", 26>>,
    <<"0x3037", 19>>, <<"0x3108", 1>>, <<"0x3630", 54>>, <<"0x3631", 14>>, <<"0x3632", 226>>,
    <<"0x3633", 18>>, <<"0x3621", 224>>, <<"0x3704", 160>>, <<"0x3703", 90>>, <<"0x3715", 120>>,
    <<"0x3717", 1>>, <<"0x370b", 96>>, <<"0x3705", 26>>, <<"0x3905", 2>>, <<"0x3906", 16>>,
    <<"0x3901", 10>>, <<"0x3731", 18>>, <<"0x3600", 8>>, <<"0x3601", 51>>, <<"0x302d", 96>>,
    <<"0x3620", 82>>, <<"0x371b", 32>>, <<"0x471c", 80>>, <<"0x3a13", 67>>, <<"0x3a18", 0>>,
    <<"0x3a19", 248>>, <<"0x3635", 19>>, <<"0x3636", 3>>, <<"0x3634", 64>>, <<"0x3622", 1>>,
    <<"0x3c01", 52>>, <<"0x3c04", 40>>, <<"0x3c05", 152>>, <<"0x3c06", 0>>, <<"0x3c07", 8>>,
    <<"0x3c08", 0>>, <<"0x3c09", 28>>, <<"0x3c0a", 156>>, <<"0x3c0b", 64>>, <<"0x3810", 0>>,
    <<"0x3811", 16>>, <<"0x3812", 0>>, <<"0x3708", 100>>, <<"0x4001", 2>>, <<"0x4005", 26>>,
    <<"0x3000", 0>>, <<"0x3004", 255>>, <<"0x300e", 88>>, <<"0x302e", 0>>, <<"0x4300", 48>>,
    <<"0x501f", 0>>, <<"0x440e", 0>>, <<"0x5000", 167>>, <<"0x3a0f", 48>>, <<"0x3a10", 40>>,
    <<"0x3a1b", 48>>, <<"0x3a1e", 38>>, <<"0x3a11", 96>>, <<"0x3a1f", 20>>, <<"0x5800", 35>>,
    <<"0x5801", 20>>, <<"0x5802", 15>>, <<"0x5803", 15>>, <<"0x5804", 18>>, <<"0x5805", 38>>,
    <<"0x5806", 12>>, <<"0x5807", 8>>, <<"0x5808", 5>>, <<"0x5809", 5>>, <<"0x580a", 8>>,
    <<"0x580b", 13>>, <<"0x580c", 8>>, <<"0x580d", 3>>, <<"0x580e", 0>>, <<"0x580f", 0>>,
    <<"0x5810", 3>>, <<"0x5811", 9>>, <<"0x5812", 7>>, <<"0x5813", 3>>, <<"0x5814", 0>>,
    <<"0x5815", 1>>, <<"0x5816", 3>>, <<"0x5817", 8>>, <<"0x5818", 13>>, <<"0x5819", 8>>,
    <<"0x581a", 5>>, <<"0x581b", 6>>, <<"0x581c", 8>>, <<"0x581d", 14>>, <<"0x581e", 41>>,
    <<"0x581f", 23>>, <<"0x5820", 17>>, <<"0x5821", 17>>, <<"0x5822", 21>>, <<"0x5823", 40>>,
    <<"0x5824", 70>>, <<"0x5825", 38>>, <<"0x5826", 8>>, <<"0x5827", 38>>, <<"0x5828", 100>>,
    <<"0x5829", 38>>, <<"0x582a", 36>>, <<"0x582b", 34>>, <<"0x582c", 36>>, <<"0x582d", 36>>,
    <<"0x582e", 6>>, <<"0x582f", 34>>, <<"0x5830", 64>>, <<"0x5831", 66>>, <<"0x5832", 36>>,
    <<"0x5833", 38>>, <<"0x5834", 36>>, <<"0x5835", 34>>, <<"0x5836", 34>>, <<"0x5837", 38>>,
    <<"0x5838", 68>>, <<"0x5839", 36>>, <<"0x583a", 38>>, <<"0x583b", 40>>, <<"0x583c", 66>>,
    <<"0x583d", 206>>, <<"0x5180", 255>>, <<"0x5181", 242>>, <<"0x5182", 0>>, <<"0x5183", 20>>,
    <<"0x5184", 37>>, <<"0x5185", 36>>, <<"0x5186", 9>>, <<"0x5187", 9>>, <<"0x5188", 9>>,
    <<"0x5189", 117>>, <<"0x518a", 84>>, <<"0x518b", 224>>, <<"0x518c", 178>>, <<"0x518d", 66>>,
    <<"0x518e", 61>>, <<"0x518f", 86>>, <<"0x5190", 70>>, <<"0x5191", 248>>, <<"0x5192", 4>>,
    <<"0x5193", 112>>, <<"0x5194", 240>>, <<"0x5195", 240>>, <<"0x5196", 3>>, <<"0x5197", 1>>,
    <<"0x5198", 4>>, <<"0x5199", 18>>, <<"0x519a", 4>>, <<"0x519b", 0>>, <<"0x519c", 6>>,
    <<"0x519d", 130>>, <<"0x519e", 56>>, <<"0x5480", 1>>, <<"0x5481", 8>>, <<"0x5482", 20>>,
    <<"0x5483", 40>>, <<"0x5484", 81>>, <<"0x5485", 101>>, <<"0x5486", 113>>, <<"0x5487", 125>>,
    <<"0x5488", 135>>, <<"0x5489", 145>>, <<"0x548a", 154>>, <<"0x548b", 170>>, <<"0x548c", 184>>,
    <<"0x548d", 205>>, <<"0x548e", 221>>, <<"0x548f", 234>>, <<"0x5490", 29>>, <<"0x5381", 30>>,
    <<"0x5382", 91>>, <<"0x5383", 8>>, <<"0x5384", 10>>, <<"0x5385", 126>>, <<"0x5386", 136>>,
    <<"0x5387", 124>>, <<"0x5388", 108>>, <<"0x5389", 16>>, <<"0x538a", 1>>, <<"0x538b", 152>>,
    <<"0x5580", 6>>, <<"0x5583", 64>>, <<"0x5584", 16>>, <<"0x5589", 16>>, <<"0x558a", 0>>,
    <<"0x558b", 248>>, <<"0x501d", 64>>, <<"0x5300", 8>>, <<"0x5301", 48>>, <<"0x5302", 16>>,
    <<"0x5303", 0>>, <<"0x5304", 8>>, <<"0x5305", 48>>, <<"0x5306", 8>>, <<"0x5307", 22>>,
    <<"0x5309", 8>>, <<"0x530a", 48>>, <<"0x530b", 4>>, <<"0x530c", 6>>, <<"0x5025", 0>>,
    <<"0x3008", 2>>, <<"0x4740", 33>>
  >>

\* solution_table: width and height by resolution, 14 entries
solution_table == <<
    <<160, 120>>, <<320, 240>>, <<480, 272>>, <<640, 480>>, <<800, 480>>,
    <<800, 600>>, <<1024, 768>>, <<1280, 800>>, <<1440, 900>>, <<1280, 1024>>,
    <<1600, 1200>>, <<1920, 1080>>, <<2048, 1536>>, <<2100, 1575>>
  >>
----------------------------------------------------------------------------
(* The autofocus firmware *)

OV5640_AF_Config ==
  <<
    2, 15, 214, 2, 10, 57, 194, 1, 34, 34, 0, 2, 15, 178, 229, 31, 112, 114, 245, 30, 210, 53, 255, 239,
    37, 224, 36, 78, 248, 228, 246, 8, 246, 15, 191, 52, 242, 144, 14, 147, 228, 147, 255, 229, 75, 195, 159, 80,
    4, 127, 5, 128, 2, 127, 251, 120, 189, 166, 7, 18, 15, 4, 64, 4, 127, 3, 128, 2, 127, 48, 120, 188,
    166, 7, 230, 24, 246, 8, 230, 120, 185, 246, 120, 188, 230, 120, 186, 246, 120, 191, 118, 51, 228, 8, 246, 120,
    184, 118, 1, 117, 74, 2, 120, 182, 246, 8, 246, 116, 255, 120, 193, 246, 8, 246, 117, 31, 1, 120, 188, 230,
    117, 240, 5, 164, 245, 75, 18, 10, 255, 194, 55, 34, 120, 184, 230, 211, 148, 0, 64, 2, 22, 34, 229, 31,
    180, 5, 35, 228, 245, 31, 194, 1, 120, 182, 230, 254, 8, 230, 255, 120, 78, 166, 6, 8, 166, 7, 162, 55,
    228, 51, 245, 60, 144, 48, 40, 240, 117, 30, 16, 210, 53, 34, 229, 75, 117, 240, 5, 132, 120, 188, 246, 144,
    14, 140, 228, 147, 255, 37, 224, 36, 10, 248, 230, 252, 8, 230, 253, 120, 188, 230, 37, 224, 36, 78, 248, 166,
    4, 8, 166, 5, 239, 18, 15, 11, 211, 120, 183, 150, 238, 24, 150, 64, 13, 120, 188, 230, 120, 185, 246, 120,
    182, 166, 6, 8, 166, 7, 144, 14, 140, 228, 147, 18, 15, 11, 195, 120, 194, 150, 238, 24, 150, 80, 13, 120,
    188, 230, 120, 186, 246, 120, 193, 166, 6, 8, 166, 7, 120, 182, 230, 254, 8, 230, 195, 120, 194, 150, 255, 238,
    24, 150, 120, 195, 246, 8, 166, 7, 144, 14, 149, 228, 24, 18, 14, 233, 64, 2, 210, 55, 120, 188, 230, 8,
    38, 8, 246, 229, 31, 100, 1, 112, 74, 230, 195, 120, 192, 18, 14, 223, 64, 5, 18, 14, 218, 64, 57, 18,
    15, 2, 64, 4, 127, 254, 128, 2, 127, 2, 120, 189, 166, 7, 120, 185, 230, 36, 3, 120, 191, 246, 120, 185,
    230, 36, 253, 120, 192, 246, 18, 15, 2, 64, 6, 120, 192, 230, 255, 128, 4, 120, 191, 230, 255, 120, 190, 166,
    7, 117, 31, 2, 120, 184, 118, 1, 2, 2, 74, 229, 31, 100, 2, 96, 3, 2, 2, 42, 120, 190, 230, 255,
    195, 120, 192, 18, 14, 224, 64, 8, 18, 14, 218, 80, 3, 2, 2, 40, 18, 15, 2, 64, 4, 127, 255, 128,
    2, 127, 1, 120, 189, 166, 7, 120, 185, 230, 4, 120, 191, 246, 120, 185, 230, 20, 120, 192, 246, 24, 18, 15,
    4, 64, 4, 230, 255, 128, 2, 127, 0, 120, 191, 166, 7, 211, 8, 230, 100, 128, 148, 128, 64, 4, 230, 255,
    128, 2, 127, 0, 120, 192, 166, 7, 195, 24, 230, 100, 128, 148, 179, 80, 4, 230, 255, 128, 2, 127, 51, 120,
    191, 166, 7, 195, 8, 230, 100, 128, 148, 179, 80, 4, 230, 255, 128, 2, 127, 51, 120, 192, 166, 7, 18, 15,
    2, 64, 6, 120, 192, 230, 255, 128, 4, 120, 191, 230, 255, 120, 190, 166, 7, 117, 31, 3, 120, 184, 118, 1,
    128, 32, 229, 31, 100, 3, 112, 38, 120, 190, 230, 255, 195, 120, 192, 18, 14, 224, 64, 5, 18, 14, 218, 64,
    9, 120, 185, 230, 120, 190, 246, 117, 31, 4, 120, 190, 230, 117, 240, 5, 164, 245, 75, 2, 10, 255, 229, 31,
    180, 4, 16, 144, 14, 148, 228, 120, 195, 18, 14, 233, 64, 2, 210, 55, 117, 31, 5, 34, 48, 1, 3, 2,
    4, 192, 48, 2, 3, 2, 4, 192, 144, 81, 165, 224, 120, 147, 246, 163, 224, 8, 246, 163, 224, 8, 246, 229,
    31, 112, 60, 117, 30, 32, 210, 53, 18, 12, 122, 120, 126, 166, 6, 8, 166, 7, 120, 139, 166, 9, 24, 118,
    1, 18, 12, 91, 120, 78, 166, 6, 8, 166, 7, 120, 139, 230, 120, 110, 246, 117, 31, 1, 120, 147, 230, 120,
    144, 246, 120, 148, 230, 120, 145, 246, 120, 149, 230, 120, 146, 246, 34, 121, 144, 231, 211, 120, 147, 150, 64, 5,
    231, 150, 255, 128, 8, 195, 121, 147, 231, 120, 144, 150, 255, 120, 136, 118, 0, 8, 166, 7, 121, 145, 231, 211,
    120, 148, 150, 64, 5, 231, 150, 255, 128, 8, 195, 121, 148, 231, 120, 145, 150, 255, 18, 12, 142, 121, 146, 231,
    211, 120, 149, 150, 64, 5, 231, 150, 255, 128, 8, 195, 121, 149, 231, 120, 146, 150, 255, 18, 12, 142, 18, 12,
    91, 120, 138, 230, 37, 224, 36, 78, 248, 166, 6, 8, 166, 7, 120, 138, 230, 36, 110, 248, 166, 9, 120, 138,
    230, 36, 1, 255, 228, 51, 254, 211, 239, 148, 15, 238, 100, 128, 148, 128, 64, 4, 127, 0, 128, 5, 120, 138,
    230, 4, 255, 120, 138, 166, 7, 229, 31, 180, 1, 10, 230, 96, 3, 2, 4, 192, 117, 31, 2, 34, 18, 12,
    122, 120, 128, 166, 6, 8, 166, 7, 18, 12, 122, 120, 130, 166, 6, 8, 166, 7, 120, 110, 230, 120, 140, 246,
    120, 110, 230, 120, 141, 246, 127, 1, 239, 37, 224, 36, 79, 249, 195, 120, 129, 230, 151, 24, 230, 25, 151, 80,
    10, 18, 12, 130, 120, 128, 166, 4, 8, 166, 5, 116, 110, 47, 249, 120, 140, 230, 195, 151, 80, 8, 116, 110,
    47, 248, 230, 120, 140, 246, 239, 37, 224, 36, 79, 249, 211, 120, 131, 230, 151, 24, 230, 25, 151, 64, 10, 18,
    12, 130, 120, 130, 166, 4, 8, 166, 5, 116, 110, 47, 249, 120, 141, 230, 211, 151, 64, 8, 116, 110, 47, 248,
    230, 120, 141, 246, 15, 239, 100, 16, 112, 158, 195, 121, 129, 231, 120, 131, 150, 255, 25, 231, 24, 150, 120, 132,
    246, 8, 166, 7, 195, 121, 140, 231, 120, 141, 150, 8, 246, 211, 121, 129, 231, 120, 127, 150, 25, 231, 24, 150,
    64, 5, 9, 231, 8, 128, 6, 195, 121, 127, 231, 120, 129, 150, 255, 25, 231, 24, 150, 254, 120, 134, 166, 6,
    8, 166, 7, 121, 140, 231, 211, 120, 139, 150, 64, 5, 231, 150, 255, 128, 8, 195, 121, 139, 231, 120, 140, 150,
    255, 120, 143, 166, 7, 229, 31, 100, 2, 112, 105, 144, 14, 145, 147, 255, 24, 230, 195, 159, 80, 114, 18, 12,
    74, 18, 12, 47, 144, 14, 142, 18, 12, 56, 120, 128, 18, 12, 107, 123, 4, 18, 12, 29, 195, 18, 6, 69,
    80, 86, 144, 14, 146, 228, 147, 255, 120, 143, 230, 159, 64, 2, 128, 17, 144, 14, 144, 228, 147, 255, 211, 120,
    137, 230, 159, 24, 230, 148, 0, 64, 3, 117, 31, 5, 18, 12, 74, 18, 12, 47, 144, 14, 143, 18, 12, 56,
    120, 126, 18, 12, 107, 123, 64, 18, 12, 29, 211, 18, 6, 69, 64, 24, 117, 31, 5, 34, 229, 31, 180, 5,
    15, 210, 1, 194, 2, 228, 245, 31, 245, 30, 210, 53, 210, 51, 210, 54, 34, 239, 141, 240, 164, 168, 240, 207,
    140, 240, 164, 40, 206, 141, 240, 164, 46, 254, 34, 188, 0, 11, 190, 0, 41, 239, 141, 240, 132, 255, 173, 240,
    34, 228, 204, 248, 117, 240, 8, 239, 47, 255, 238, 51, 254, 236, 51, 252, 238, 157, 236, 152, 64, 5, 252, 238,
    157, 254, 15, 213, 240, 233, 228, 206, 253, 34, 237, 248, 245, 240, 238, 132, 32, 210, 28, 254, 173, 240, 117, 240,
    8, 239, 47, 255, 237, 51, 253, 64, 7, 152, 80, 6, 213, 240, 242, 34, 195, 152, 253, 15, 213, 240, 234, 34,
    232, 143, 240, 164, 204, 139, 240, 164, 44, 252, 233, 142, 240, 164, 44, 252, 138, 240, 237, 164, 44, 252, 234, 142,
    240, 164, 205, 168, 240, 139, 240, 164, 45, 204, 56, 37, 240, 253, 233, 143, 240, 164, 44, 205, 53, 240, 252, 235,
    142, 240, 164, 254, 169, 240, 235, 143, 240, 164, 207, 197, 240, 46, 205, 57, 254, 228, 60, 252, 234, 164, 45, 206,
    53, 240, 253, 228, 60, 252, 34, 117, 240, 8, 117, 130, 0, 239, 47, 255, 238, 51, 254, 205, 51, 205, 204, 51,
    204, 197, 130, 51, 197, 130, 155, 237, 154, 236, 153, 229, 130, 152, 64, 12, 245, 130, 238, 155, 254, 237, 154, 253,
    236, 153, 252, 15, 213, 240, 214, 228, 206, 251, 228, 205, 250, 228, 204, 249, 168, 130, 34, 184, 0, 193, 185, 0,
    89, 186, 0, 45, 236, 139, 240, 132, 207, 206, 205, 252, 229, 240, 203, 249, 120, 24, 239, 47, 255, 238, 51, 254,
    237, 51, 253, 236, 51, 252, 235, 51, 251, 16, 215, 3, 153, 64, 4, 235, 153, 251, 15, 216, 229, 228, 249, 250,
    34, 120, 24, 239, 47, 255, 238, 51, 254, 237, 51, 253, 236, 51, 252, 201, 51, 201, 16, 215, 5, 155, 233, 154,
    64, 7, 236, 155, 252, 233, 154, 249, 15, 216, 224, 228, 201, 250, 228, 204, 251, 34, 117, 240, 16, 239, 47, 255,
    238, 51, 254, 237, 51, 253, 204, 51, 204, 200, 51, 200, 16, 215, 7, 155, 236, 154, 232, 153, 64, 10, 237, 155,
    253, 236, 154, 252, 232, 153, 248, 15, 213, 240, 218, 228, 205, 251, 228, 204, 250, 228, 200, 249, 34, 235, 159, 245,
    240, 234, 158, 66, 240, 233, 157, 66, 240, 232, 156, 69, 240, 34, 232, 96, 15, 236, 195, 19, 252, 237, 19, 253,
    238, 19, 254, 239, 19, 255, 216, 241, 34, 232, 96, 15, 239, 195, 51, 255, 238, 51, 254, 237, 51, 253, 236, 51,
    252, 216, 241, 34, 228, 147, 252, 116, 1, 147, 253, 116, 2, 147, 254, 116, 3, 147, 255, 34, 230, 251, 8, 230,
    249, 8, 230, 250, 8, 230, 203, 248, 34, 236, 246, 8, 237, 246, 8, 238, 246, 8, 239, 246, 34, 164, 37, 130,
    245, 130, 229, 240, 53, 131, 245, 131, 34, 208, 131, 208, 130, 248, 228, 147, 112, 18, 116, 1, 147, 112, 13, 163,
    163, 147, 248, 116, 1, 147, 245, 130, 136, 131, 228, 115, 116, 2, 147, 104, 96, 239, 163, 163, 163, 128, 223, 144,
    56, 4, 120, 82, 18, 11, 253, 144, 56, 0, 224, 254, 163, 224, 253, 237, 255, 195, 18, 11, 158, 144, 56, 16,
    18, 11, 146, 144, 56, 6, 120, 84, 18, 11, 253, 144, 56, 2, 224, 254, 163, 224, 253, 237, 255, 195, 18, 11,
    158, 144, 56, 18, 18, 11, 146, 163, 224, 180, 49, 7, 120, 82, 121, 82, 18, 12, 19, 144, 56, 20, 224, 180,
    113, 21, 120, 82, 230, 254, 8, 230, 120, 2, 206, 195, 19, 206, 19, 216, 249, 121, 83, 247, 238, 25, 247, 144,
    56, 21, 224, 180, 49, 7, 120, 84, 121, 84, 18, 12, 19, 144, 56, 21, 224, 180, 113, 21, 120, 84, 230, 254,
    8, 230, 120, 2, 206, 195, 19, 206, 19, 216, 249, 121, 85, 247, 238, 25, 247, 121, 82, 18, 11, 217, 9, 18,
    11, 217, 175, 71, 18, 11, 178, 229, 68, 251, 122, 0, 253, 124, 0, 18, 4, 211, 120, 90, 166, 6, 8, 166,
    7, 175, 69, 18, 11, 178, 173, 3, 124, 0, 18, 4, 211, 120, 86, 166, 6, 8, 166, 7, 175, 72, 120, 84,
    18, 11, 180, 229, 67, 251, 253, 124, 0, 18, 4, 211, 120, 92, 166, 6, 8, 166, 7, 175, 70, 126, 0, 120,
    84, 18, 11, 182, 173, 3, 124, 0, 18, 4, 211, 120, 88, 166, 6, 8, 166, 7, 195, 120, 91, 230, 148, 8,
    24, 230, 148, 0, 80, 5, 118, 0, 8, 118, 8, 195, 120, 93, 230, 148, 8, 24, 230, 148, 0, 80, 5, 118,
    0, 8, 118, 8, 120, 90, 18, 11, 198, 255, 211, 120, 87, 230, 159, 24, 230, 158, 64, 14, 120, 90, 230, 19,
    254, 8, 230, 120, 87, 18, 12, 8, 128, 4, 126, 0, 127, 0, 120, 94, 18, 11, 190, 255, 211, 120, 89, 230,
    159, 24, 230, 158, 64, 14, 120, 92, 230, 19, 254, 8, 230, 120, 89, 18, 12, 8, 128, 4, 126, 0, 127, 0,
    228, 252, 253, 120, 98, 18, 6, 153, 120, 90, 18, 11, 198, 120, 87, 38, 255, 238, 24, 54, 254, 120, 102, 18,
    11, 190, 120, 89, 38, 255, 238, 24, 54, 254, 228, 252, 253, 120, 106, 18, 6, 153, 18, 11, 206, 120, 102, 18,
    6, 140, 211, 18, 6, 69, 64, 8, 18, 11, 206, 120, 102, 18, 6, 153, 120, 84, 18, 11, 208, 120, 106, 18,
    6, 140, 211, 18, 6, 69, 64, 10, 120, 84, 18, 11, 208, 120, 106, 18, 6, 153, 120, 97, 230, 144, 96, 1,
    240, 120, 101, 230, 163, 240, 120, 105, 230, 163, 240, 120, 85, 230, 163, 240, 125, 1, 120, 97, 18, 11, 233, 36,
    1, 18, 11, 166, 120, 101, 18, 11, 233, 36, 2, 18, 11, 166, 120, 105, 18, 11, 233, 36, 3, 18, 11, 166,
    120, 109, 18, 11, 233, 36, 4, 18, 11, 166, 13, 189, 5, 212, 194, 14, 194, 6, 34, 133, 8, 65, 144, 48,
    36, 224, 245, 61, 163, 224, 245, 62, 163, 224, 245, 63, 163, 224, 245, 64, 163, 224, 245, 60, 210, 52, 229, 65,
    18, 6, 177, 9, 49, 3, 9, 53, 4, 9, 59, 5, 9, 62, 6, 9, 65, 7, 9, 74, 8, 9, 91, 18,
    9, 115, 24, 9, 137, 25, 9, 94, 26, 9, 106, 27, 9, 173, 128, 9, 178, 129, 10, 29, 143, 10, 9, 144,
    10, 29, 145, 10, 29, 146, 10, 29, 147, 10, 29, 148, 10, 29, 152, 10, 23, 159, 10, 26, 236, 0, 0, 10,
    56, 18, 15, 116, 34, 18, 15, 116, 210, 3, 34, 210, 3, 34, 194, 3, 34, 162, 55, 228, 51, 245, 60, 2,
    10, 29, 194, 1, 194, 2, 194, 3, 18, 13, 13, 117, 30, 112, 210, 53, 2, 10, 29, 2, 10, 4, 133, 64,
    74, 133, 60, 75, 18, 10, 255, 2, 10, 29, 133, 74, 64, 133, 75, 60, 2, 10, 29, 228, 245, 34, 245, 35,
    133, 64, 49, 133, 63, 48, 133, 62, 47, 133, 61, 46, 18, 15, 70, 128, 31, 117, 34, 0, 117, 35, 1, 116,
    255, 245, 45, 245, 44, 245, 43, 245, 42, 18, 15, 70, 133, 45, 64, 133, 44, 63, 133, 43, 62, 133, 42, 61,
    228, 245, 60, 128, 112, 18, 15, 22, 128, 107, 133, 61, 69, 133, 62, 70, 229, 71, 195, 19, 255, 229, 69, 195,
    159, 80, 2, 143, 69, 229, 72, 195, 19, 255, 229, 70, 195, 159, 80, 2, 143, 70, 229, 71, 195, 19, 255, 253,
    229, 69, 45, 253, 228, 51, 252, 229, 68, 18, 15, 144, 64, 5, 229, 68, 159, 245, 69, 229, 72, 195, 19, 255,
    253, 229, 70, 45, 253, 228, 51, 252, 229, 67, 18, 15, 144, 64, 5, 229, 67, 159, 245, 70, 18, 6, 215, 128,
    20, 133, 64, 72, 133, 63, 71, 133, 62, 70, 133, 61, 69, 128, 6, 2, 6, 215, 18, 13, 126, 144, 48, 36,
    229, 61, 240, 163, 229, 62, 240, 163, 229, 63, 240, 163, 229, 64, 240, 163, 229, 60, 240, 144, 48, 35, 228, 240,
    34, 192, 224, 192, 131, 192, 130, 192, 208, 144, 63, 12, 224, 245, 50, 229, 50, 48, 227, 116, 48, 54, 102, 144,
    96, 25, 224, 245, 10, 163, 224, 245, 11, 144, 96, 29, 224, 245, 20, 163, 224, 245, 21, 144, 96, 33, 224, 245,
    12, 163, 224, 245, 13, 144, 96, 41, 224, 245, 14, 163, 224, 245, 15, 144, 96, 49, 224, 245, 16, 163, 224, 245,
    17, 144, 96, 57, 224, 245, 18, 163, 224, 245, 19, 48, 1, 6, 48, 51, 3, 211, 128, 1, 195, 146, 9, 48,
    2, 6, 48, 51, 3, 211, 128, 1, 195, 146, 10, 48, 51, 12, 48, 3, 9, 32, 2, 6, 32, 1, 3, 211,
    128, 1, 195, 146, 11, 144, 48, 1, 224, 68, 64, 240, 224, 84, 191, 240, 229, 50, 48, 225, 20, 48, 52, 17,
    144, 48, 34, 224, 245, 8, 228, 240, 48, 0, 3, 211, 128, 1, 195, 146, 8, 229, 50, 48, 229, 18, 144, 86,
    161, 224, 245, 9, 48, 49, 9, 48, 5, 3, 211, 128, 1, 195, 146, 13, 144, 63, 12, 229, 50, 240, 208, 208,
    208, 130, 208, 131, 208, 224, 50, 144, 14, 126, 228, 147, 254, 116, 1, 147, 255, 195, 144, 14, 124, 116, 1, 147,
    159, 255, 228, 147, 158, 254, 228, 143, 59, 142, 58, 245, 57, 245, 56, 171, 59, 170, 58, 169, 57, 168, 56, 175,
    75, 252, 253, 254, 18, 5, 40, 18, 13, 225, 228, 123, 255, 250, 249, 248, 18, 5, 179, 18, 13, 225, 144, 14,
    105, 228, 18, 13, 246, 18, 13, 225, 228, 133, 74, 55, 245, 54, 245, 53, 245, 52, 175, 55, 174, 54, 173, 53,
    172, 52, 163, 18, 13, 246, 143, 55, 142, 54, 141, 53, 140, 52, 229, 59, 69, 55, 245, 59, 229, 58, 69, 54,
    245, 58, 229, 57, 69, 53, 245, 57, 229, 56, 69, 52, 245, 56, 228, 245, 34, 245, 35, 133, 59, 49, 133, 58,
    48, 133, 57, 47, 133, 56, 46, 2, 15, 70, 224, 163, 224, 117, 240, 2, 164, 255, 174, 240, 195, 8, 230, 159,
    246, 24, 230, 158, 246, 34, 255, 229, 240, 52, 96, 143, 130, 245, 131, 236, 240, 34, 120, 82, 126, 0, 230, 252,
    8, 230, 253, 2, 4, 193, 228, 252, 253, 18, 6, 153, 120, 92, 230, 195, 19, 254, 8, 230, 19, 34, 120, 82,
    230, 254, 8, 230, 255, 228, 252, 253, 34, 231, 196, 248, 84, 240, 200, 104, 247, 9, 231, 196, 84, 15, 72, 247,
    34, 230, 252, 237, 117, 240, 4, 164, 34, 18, 6, 124, 143, 72, 142, 71, 141, 70, 140, 69, 34, 224, 254, 163,
    224, 253, 238, 246, 237, 8, 246, 34, 19, 255, 195, 230, 159, 255, 24, 230, 158, 254, 34, 230, 195, 19, 247, 8,
    230, 19, 9, 247, 34, 173, 57, 172, 56, 250, 249, 248, 18, 5, 40, 143, 59, 142, 58, 141, 57, 140, 56, 171,
    55, 170, 54, 169, 53, 168, 52, 34, 147, 255, 228, 252, 253, 254, 18, 5, 40, 143, 55, 142, 54, 141, 53, 140,
    52, 34, 120, 132, 230, 254, 8, 230, 255, 228, 143, 55, 142, 54, 245, 53, 245, 52, 34, 144, 14, 140, 228, 147,
    37, 224, 36, 10, 248, 230, 254, 8, 230, 255, 34, 230, 254, 8, 230, 255, 228, 143, 59, 142, 58, 245, 57, 245,
    56, 34, 120, 78, 230, 254, 8, 230, 255, 34, 239, 37, 224, 36, 78, 248, 230, 252, 8, 230, 253, 34, 120, 137,
    239, 38, 246, 24, 228, 54, 246, 34, 117, 137, 3, 117, 168, 1, 117, 184, 4, 117, 52, 255, 117, 53, 14, 117,
    54, 21, 117, 55, 13, 18, 14, 154, 18, 0, 9, 18, 15, 22, 18, 0, 6, 210, 0, 210, 52, 210, 175, 117,
    52, 255, 117, 53, 14, 117, 54, 73, 117, 55, 3, 18, 14, 154, 48, 8, 9, 194, 52, 18, 8, 203, 194, 8,
    210, 52, 48, 11, 9, 194, 54, 18, 2, 108, 194, 11, 210, 54, 48, 9, 9, 194, 54, 18, 0, 14, 194, 9,
    210, 54, 48, 14, 3, 18, 6, 215, 48, 53, 211, 144, 48, 41, 229, 30, 240, 180, 16, 5, 144, 48, 35, 228,
    240, 194, 53, 128, 193, 228, 245, 75, 144, 14, 122, 147, 255, 228, 143, 55, 245, 54, 245, 53, 245, 52, 175, 55,
    174, 54, 173, 53, 172, 52, 144, 14, 106, 18, 13, 246, 143, 55, 142, 54, 141, 53, 140, 52, 144, 14, 114, 18,
    6, 124, 239, 69, 55, 245, 55, 238, 69, 54, 245, 54, 237, 69, 53, 245, 53, 236, 69, 52, 245, 52, 228, 245,
    34, 245, 35, 133, 55, 49, 133, 54, 48, 133, 53, 47, 133, 52, 46, 18, 15, 70, 228, 245, 34, 245, 35, 144,
    14, 114, 18, 13, 234, 18, 15, 70, 228, 245, 34, 245, 35, 144, 14, 110, 18, 13, 234, 2, 15, 70, 229, 64,
    36, 242, 245, 55, 229, 63, 52, 67, 245, 54, 229, 62, 52, 162, 245, 53, 229, 61, 52, 40, 245, 52, 229, 55,
    255, 228, 254, 253, 252, 120, 24, 18, 6, 105, 143, 64, 142, 63, 141, 62, 140, 61, 229, 55, 84, 160, 255, 229,
    54, 254, 228, 253, 252, 120, 7, 18, 6, 86, 120, 16, 18, 15, 154, 228, 255, 254, 229, 53, 253, 228, 252, 120,
    14, 18, 6, 86, 18, 15, 157, 228, 255, 254, 253, 229, 52, 252, 120, 24, 18, 6, 86, 120, 8, 18, 15, 154,
    34, 143, 59, 142, 58, 141, 57, 140, 56, 34, 18, 6, 124, 143, 49, 142, 48, 141, 47, 140, 46, 34, 147, 249,
    248, 2, 6, 105, 0, 0, 0, 0, 18, 1, 23, 8, 49, 21, 83, 84, 68, 32, 32, 32, 32, 32, 19, 1,
    16, 1, 86, 64, 26, 48, 41, 126, 0, 48, 4, 32, 223, 48, 5, 64, 191, 80, 3, 0, 253, 80, 39, 1,
    254, 96, 0, 17, 0, 63, 5, 48, 0, 63, 6, 34, 0, 63, 1, 42, 0, 63, 2, 0, 0, 54, 6, 7,
    0, 63, 11, 15, 240, 0, 0, 0, 0, 48, 1, 64, 191, 48, 1, 0, 191, 48, 41, 112, 0, 58, 0, 0,
    255, 58, 0, 0, 255, 54, 3, 54, 2, 65, 68, 88, 32, 24, 16, 10, 4, 4, 0, 3, 255, 100, 0, 0,
    128, 0, 0, 0, 0, 0, 0, 2, 4, 6, 6, 0, 3, 81, 0, 122, 80, 60, 40, 30, 16, 16, 80, 45,
    40, 22, 16, 16, 2, 0, 16, 12, 16, 4, 12, 110, 6, 5, 0, 165, 90, 0, 174, 53, 175, 54, 228, 253,
    237, 195, 149, 55, 80, 51, 18, 15, 226, 228, 147, 245, 56, 116, 1, 147, 245, 57, 69, 56, 96, 35, 133, 57,
    130, 133, 56, 131, 224, 252, 18, 15, 226, 116, 3, 147, 82, 4, 18, 15, 226, 116, 2, 147, 66, 4, 133, 57,
    130, 133, 56, 131, 236, 240, 13, 128, 199, 34, 120, 190, 230, 211, 8, 255, 230, 100, 128, 248, 239, 100, 128, 152,
    34, 147, 255, 126, 0, 230, 252, 8, 230, 253, 18, 4, 193, 120, 193, 230, 252, 8, 230, 253, 211, 239, 157, 238,
    156, 34, 120, 189, 211, 230, 100, 128, 148, 128, 34, 37, 224, 36, 10, 248, 230, 254, 8, 230, 255, 34, 229, 60,
    211, 148, 0, 64, 11, 144, 14, 136, 18, 11, 241, 144, 14, 134, 128, 9, 144, 14, 130, 18, 11, 241, 144, 14,
    128, 228, 147, 245, 68, 163, 228, 147, 245, 67, 210, 6, 48, 6, 3, 211, 128, 1, 195, 146, 14, 34, 162, 175,
    146, 50, 194, 175, 229, 35, 69, 34, 144, 14, 93, 96, 14, 18, 15, 203, 224, 245, 44, 18, 15, 200, 224, 245,
    45, 128, 12, 18, 15, 203, 229, 48, 240, 18, 15, 200, 229, 49, 240, 162, 50, 146, 175, 34, 210, 1, 194, 2,
    228, 245, 31, 245, 30, 210, 53, 210, 51, 210, 54, 210, 1, 194, 2, 245, 31, 245, 30, 210, 53, 210, 51, 34,
    251, 211, 237, 155, 116, 128, 248, 108, 152, 34, 18, 6, 105, 229, 64, 47, 245, 64, 229, 63, 62, 245, 63, 229,
    62, 61, 245, 62, 229, 61, 60, 245, 61, 34, 192, 224, 192, 131, 192, 130, 144, 63, 13, 224, 245, 51, 229, 51,
    240, 208, 130, 208, 131, 208, 224, 50, 144, 14, 95, 228, 147, 254, 116, 1, 147, 245, 130, 142, 131, 34, 120, 127,
    228, 246, 216, 253, 117, 129, 205, 2, 12, 152, 143, 130, 142, 131, 117, 240, 4, 237, 2, 6, 165
  >>

----------------------------------------------------------------------------
(* The sensor registers and the bus *)

\* Registers the driver reads back somewhere; the value of any other register
\* never reaches the driver, so only the writes to it are recorded (in the log).
TrackedRegs ==
  { "OV5640_TIMING_DVPHO_HIGH", "OV5640_TIMING_DVPHO_LOW",
    "OV5640_TIMING_DVPVO_HIGH", "OV5640_TIMING_DVPVO_LOW",
    "OV5640_TIMING_TC_REG20", "OV5640_TIMING_TC_REG21",
    "OV5640_SYSREM_RESET02", "OV5640_CLOCK_ENABLE02",
    "OV5640_POLARITY_CTRL", "0x4814", "OV5640_AEC_CTRL00",
    "OV5640_CHIP_ID_HIGH_BYTE", "OV5640_CHIP_ID_LOW_BYTE" }

\* Status of the k-th bus transaction of a call under fault plan f.
Status(f, k) == IF k \in DOMAIN f THEN f[k] ELSE OV5640_OK

NoFault == << >>

\* A call starts with the sensor registers as they are, an empty log and the
\* environment's fault plan.  st is the status of the last transaction, val the
\* byte delivered by the last successful read.
Machine(r, f) == [regs |-> r, log |-> << >>, n |-> 0, fault |-> f, st |-> OV5640_OK, val |-> 0]

\* ov5640_write_reg through OV5640_WriteRegWrap: one single-byte bus write.
WriteReg(m, reg, val) ==
  LET st == Status(m.fault, m.n + 1)
  IN  [m EXCEPT !.n = @ + 1,
                !.log = Append(@, <<"W", reg, val, st>>),
                !.regs = IF st = OV5640_OK /\ reg \in DOMAIN @
                         THEN [@ EXCEPT ![reg] = val] ELSE @,
                !.st = st]

\* ov5640_read_reg through OV5640_ReadRegWrap: one single-byte bus read of a
\* register that holds the last value written to it.  A failed read delivers
\* nothing: val keeps its previous content.
ReadReg(m, reg) ==
  LET st == Status(m.fault, m.n + 1)
  IN  [m EXCEPT !.n = @ + 1,
                !.log = Append(@, <<"R", reg, m.regs[reg], st>>),
                !.val = IF st = OV5640_OK THEN m.regs[reg] ELSE @,
                !.st = st]

\* A register table prepared for the table loops: its rows, the log of writing
\* all of it without a failure, and the rows that write a tracked register.
Table(rows) ==
  [rows |-> rows,
   oklog |-> [i \in 1..Len(rows) |-> <<"W", rows[i][1], rows[i][2], OV5640_OK>>],
   tracked |-> {i \in 1..Len(rows) : rows[i][1] \in TrackedRegs}]

\* First transaction of the next len ones that fails under m's fault plan, as
\* an index into them; 0 if none does.
FirstFault(m, len) ==
  LET bad == {k - m.n : k \in {j \in DOMAIN m.fault : m.fault[j] # OV5640_OK}} \cap (1..len)
  IN  IF bad = {} THEN 0 ELSE SetMin(bad)

\* The table loops of the driver, "for each entry: if no write failed so far,
\* write it; on failure set ret = OV5640_ERROR" (and the variant that breaks out
\* of the loop): entries are written in table order up to and including the
\* first write that fails.  st is OV5640_OK iff every entry was written.
ApplyTable_Mut(m, t) ==
  LET len == Len(t.rows)
      bad == FirstFault(m, len)
  IN  [m EXCEPT !.n = @ + len,
                !.log = @ \o [i \in 1..len |->
                                <<"W", t.rows[i][1], t.rows[i][2], Status(m.fault, m.n + i)>>],
                !.regs = [r \in DOMAIN @ |->
                            LET w == {i \in t.tracked : i # bad /\ t.rows[i][1] = r}
                            IN  IF w = {} THEN @[r] ELSE t.rows[SetMax(w)][2]],
                !.st = IF bad = 0 THEN OV5640_OK ELSE Status(m.fault, m.n + bad)]

ApplyTable(m, t) ==
  LET len == Len(t.rows)
      bad == FirstFault(m, len)
      cnt == IF bad = 0 THEN len ELSE bad
      okc == IF bad = 0 THEN len ELSE bad - 1
  IN  [m EXCEPT !.n = @ + cnt,
                !.log = IF bad = 0
                        THEN @ \o t.oklog
                        ELSE @ \o SubSeq(t.oklog, 1, okc)
                               \o << <<"W", t.rows[bad][1], t.rows[bad][2], Status(m.fault, m.n + bad)>> >>,
                !.regs = [r \in DOMAIN @ |->
                            LET w == {i \in t.tracked : i <= okc /\ t.rows[i][1] = r}
                            IN  IF w = {} THEN @[r] ELSE t.rows[SetMax(w)][2]],
                !.st = IF bad = 0 THEN OV5640_OK ELSE Status(m.fault, m.n + bad)]

\* Steps of a chain "if (ret == OV5640_OK) { ret = <transaction>; }": the
\* transaction is issued only if the one before it succeeded.
WriteIfOK(m, reg, val) == IF m.st = OV5640_OK THEN WriteReg(m, reg, val) ELSE m

ReadIfOK(m, reg) == IF m.st = OV5640_OK THEN ReadReg(m, reg) ELSE m

\* The write half of a read-modify-write, "tmp &= mask; tmp |= bits; write tmp",
\* issued only if the read before it succeeded; tmp is the byte that was read.
Modify(m, reg, mask, bits) ==
  IF m.st = OV5640_OK THEN WriteReg(m, reg, Or8(And8(m.val, mask), bits)) ELSE m

\* The prepared tables
Common_Table == Table(OV5640_Common)
DVPMode_Table == Table(DVPMode_regs)
MIPIMode_Table == Table(MIPIMode_regs)
WVGA_Table == Table(OV5640_WVGA)
VGA_Table == Table(OV5640_VGA)
R480x272_Table == Table(OV5640_480x272)
QVGA_Table == Table(OV5640_QVGA)
QQVGA_Table == Table(OV5640_QQVGA)
PF_RGB565_Table == Table(OV5640_PF_RGB565)
PF_YUV422_Table == Table(OV5640_PF_YUV422)
PF_RGB888_Table == Table(OV5640_PF_RGB888)
PF_Y8_Table == Table(OV5640_PF_Y8)
PF_JPEG_Table == Table(OV5640_PF_JPEG)

----------------------------------------------------------------------------
(* The driver's operations, as functions of the handle, the machine and the
   arguments.  Each returns the machine after the call and the return value
   (and the handle or the output parameters where the call changes them). *)

Ret(st) == IF st = OV5640_OK THEN OV5640_OK ELSE OV5640_ERROR

\* "if (<last transaction> != OV5640_OK) ret = OV5640_ERROR"
Result(m) == [m |-> m, ret |-> Ret(m.st)]

SupportedFormats == {OV5640_RGB565, OV5640_YUV422, OV5640_RGB888, OV5640_Y8, OV5640_JPEG}

\* OV5640_RegisterBusIO.  nullObj: the handle pointer is NULL.  pIOInit: the
\* supplied open capability ("NULL" or "fn"); openRet: what the open call returns.
\* The open call is logged as <<"O", ...>>.
OV5640_RegisterBusIO_Mut(o, nullObj, pIOInit, openRet) ==
  IF nullObj
  THEN [obj |-> o, log |-> << >>, ret |-> OV5640_ERROR]
  ELSE [obj |-> [o EXCEPT !.registered = TRUE, !.IOInit = pIOInit,
                          !.bright = 1, !.saturation = 65,
                          !.contrast = 65, !.huedegree = 50],
        log |-> IF pIOInit # "NULL" THEN << <<"O", "IO.Init", 0, openRet>> >> ELSE << >>,
        ret |-> IF pIOInit # "NULL" THEN openRet ELSE OV5640_OK]

OV5640_RegisterBusIO(o, nullObj, pIOInit, openRet) ==
  IF nullObj
  THEN [obj |-> o, log |-> << >>, ret |-> OV5640_ERROR]
  ELSE [obj |-> [o EXCEPT !.registered = TRUE, !.IOInit = pIOInit,
                          !.bright = 1, !.saturation = 65,
                          !.contrast = 65, !.huedegree = 50],
        log |-> IF pIOInit # "NULL" THEN << <<"O", "IO.Init", 0, openRet>> >> ELSE << >>,
        ret |-> IF pIOInit # "NULL" THEN openRet ELSE OV5640_ERROR]

\* OV5640_EnableDVPMode
OV5640_EnableDVPMode(m) == Result(ApplyTable(m, DVPMode_Table))

\* OV5640_EnableMIPIMode
OV5640_EnableMIPIMode(m) == Result(ApplyTable(m, MIPIMode_Table))

\* OV5640_SetMIPIVirtualChannel: read-modify-write of bits [7:6] of 0x4814
OV5640_SetMIPIVirtualChannel(m, vchannel) ==
  Result(Modify(ReadReg(m, "0x4814"), "0x4814", 63, U8(vchannel * 64)))

ResolutionTable_Mut(Resolution) ==
  CASE Resolution = OV5640_R160x120 -> QVGA_Table
    [] Resolution = OV5640_R320x240 -> QQVGA_Table
    [] Resolution = OV5640_R480x272 -> R480x272_Table
    [] Resolution = OV5640_R640x480 -> VGA_Table
    [] Resolution = OV5640_R800x480 -> WVGA_Table

ResolutionTable(Resolution) ==
  CASE Resolution = OV5640_R160x120 -> QQVGA_Table
    [] Resolution = OV5640_R320x240 -> QVGA_Table
    [] Resolution = OV5640_R480x272 -> R480x272_Table
    [] Resolution = OV5640_R640x480 -> VGA_Table
    [] Resolution = OV5640_R800x480 -> WVGA_Table

\* OV5640_SetResolution
OV5640_SetResolution(m, Resolution) ==
  IF Resolution > OV5640_R800x480
  THEN [m |-> m, ret |-> OV5640_ERROR]
  ELSE Result(ApplyTable(m, ResolutionTable(Resolution)))

PixelFormatTable(PixelFormat) ==
  CASE PixelFormat = OV5640_YUV422 -> PF_YUV422_Table
    [] PixelFormat = OV5640_RGB888 -> PF_RGB888_Table
    [] PixelFormat = OV5640_Y8 -> PF_Y8_Table
    [] PixelFormat = OV5640_JPEG -> PF_JPEG_Table
    [] OTHER -> PF_RGB565_Table

\* The three read-modify-write patches of OV5640_SetPixelFormat for JPEG: set
\* bit 5 of TIMING_TC_REG21, clear bits 4..2 of SYSREM_RESET02, set bits 5 and 3
\* of CLOCK_ENABLE02.  The first read is issued unconditionally, each later
\* transaction only if the one before it succeeded.
JpegPatches(m) ==
  Modify(ReadIfOK(
    Modify(ReadIfOK(
      Modify(ReadReg(m, "OV5640_TIMING_TC_REG21"), "OV5640_TIMING_TC_REG21", 255, 32),
      "OV5640_SYSREM_RESET02"), "OV5640_SYSREM_RESET02", 227, 0),
    "OV5640_CLOCK_ENABLE02"), "OV5640_CLOCK_ENABLE02", 255, 40)

\* ret after the JPEG patches: OV5640_ERROR if the format table (m1) or the
\* patches (m2) had a failing transaction.
JpegResult(m1, m2) ==
  [m |-> m2,
   ret |-> IF m1.st = OV5640_OK /\ m2.st = OV5640_OK THEN OV5640_OK ELSE OV5640_ERROR]

\* OV5640_SetPixelFormat after the format table: the JPEG patches are entered
\* whether or not the table was written in full.
PixelFormatPatches(m1, PixelFormat) ==
  IF PixelFormat = OV5640_JPEG THEN JpegResult(m1, JpegPatches(m1)) ELSE Result(m1)

\* OV5640_SetPixelFormat
OV5640_SetPixelFormat_Mut(m, PixelFormat) ==
  PixelFormatPatches(ApplyTable(m, PixelFormatTable(PixelFormat)), PixelFormat)

OV5640_SetPixelFormat(m, PixelFormat) ==
  IF PixelFormat \notin SupportedFormats
  THEN [m |-> m, ret |-> OV5640_ERROR]
  ELSE PixelFormatPatches(ApplyTable(m, PixelFormatTable(PixelFormat)), PixelFormat)

\* OV5640_SetPolarities
OV5640_SetPolarities_Mut(m, nullObj, PclkPolarity, HrefPolarity, VsyncPolarity) ==
  IF nullObj
  THEN [m |-> m, ret |-> OV5640_ERROR]
  ELSE Result(WriteReg(m, "OV5640_POLARITY_CTRL",
                       U8(Or8(Or8(U8(PclkPolarity * 32), HrefPolarity * 2), VsyncPolarity))))

OV5640_SetPolarities(m, nullObj, PclkPolarity, HrefPolarity, VsyncPolarity) ==
  IF \/ nullObj
     \/ (PclkPolarity # OV5640_POLARITY_PCLK_LOW /\ PclkPolarity # OV5640_POLARITY_PCLK_HIGH)
     \/ (HrefPolarity # OV5640_POLARITY_HREF_LOW /\ HrefPolarity # OV5640_POLARITY_HREF_HIGH)
     \/ (VsyncPolarity # OV5640_POLARITY_VSYNC_LOW /\ VsyncPolarity # OV5640_POLARITY_VSYNC_HIGH)
  THEN [m |-> m, ret |-> OV5640_ERROR]
  ELSE Result(WriteReg(m, "OV5640_POLARITY_CTRL",
                       U8(Or8(Or8(U8(PclkPolarity * 32), HrefPolarity * 2), VsyncPolarity))))

\* OV5640_Init after OV5640_EnableMIPIMode returned a: the virtual channel
InitChannel(o, a) ==
  IF a.ret # OV5640_OK
  THEN [m |-> a.m, ret |-> OV5640_ERROR]
  ELSE OV5640_SetMIPIVirtualChannel(a.m, o.VirtualChannelID)

\* OV5640_Init after the common table left the machine m1: the interface mode
InitInterface_Mut(o, m1) ==
  IF m1.st # OV5640_OK
  THEN [m |-> m1, ret |-> OV5640_ERROR]
  ELSE IF o.Mode = SERIAL_MODE
       THEN OV5640_EnableMIPIMode(OV5640_SetMIPIVirtualChannel(m1, o.VirtualChannelID).m)
       ELSE OV5640_EnableDVPMode(m1)

InitInterface(o, m1) ==
  IF m1.st # OV5640_OK
  THEN [m |-> m1, ret |-> OV5640_ERROR]
  ELSE IF o.Mode = SERIAL_MODE
       THEN InitChannel(o, OV5640_EnableMIPIMode(m1))
       ELSE OV5640_EnableDVPMode(m1)

\* OV5640_Init after step a: the next step of the chain resolution, pixel
\* format, polarities is called only if a returned OV5640_OK.
InitResolution(a, Resolution) ==
  IF a.ret # OV5640_OK
  THEN [m |-> a.m, ret |-> OV5640_ERROR]
  ELSE OV5640_SetResolution(a.m, Resolution)

InitPixelFormat(a, PixelFormat) ==
  IF a.ret # OV5640_OK
  THEN [m |-> a.m, ret |-> OV5640_ERROR]
  ELSE OV5640_SetPixelFormat(a.m, PixelFormat)

InitPolarities(a) ==
  IF a.ret # OV5640_OK
  THEN [m |-> a.m, ret |-> OV5640_ERROR]
  ELSE OV5640_SetPolarities(a.m, FALSE, OV5640_POLARITY_PCLK_HIGH,
                            OV5640_POLARITY_HREF_HIGH, OV5640_POLARITY_VSYNC_HIGH)

\* OV5640_Init: the flag is set when the last step returned OV5640_OK.
InitFlag_Mut(o, a) ==
  [obj |-> [o EXCEPT !.IsInitialized = 1], m |-> a.m, ret |-> Ret(a.ret)]

InitFlag(o, a) ==
  IF a.ret # OV5640_OK
  THEN [obj |-> o, m |-> a.m, ret |-> OV5640_ERROR]
  ELSE [obj |-> [o EXCEPT !.IsInitialized = 1], m |-> a.m, ret |-> OV5640_OK]

\* OV5640_Init
OV5640_Init_Mut(o, m, Resolution, PixelFormat) ==
  IF Resolution > OV5640_R800x480 \/ PixelFormat \notin SupportedFormats
  THEN [obj |-> o, m |-> m, ret |-> OV5640_ERROR]
  ELSE InitFlag(o,
         InitPolarities(InitPixelFormat(InitResolution(
           InitInterface(o, ApplyTable(m, Common_Table)), Resolution), PixelFormat)))

OV5640_Init(o, m, Resolution, PixelFormat) ==
  IF o.IsInitialized = 0
  THEN IF Resolution > OV5640_R800x480 \/ PixelFormat \notin SupportedFormats
       THEN [obj |-> o, m |-> m, ret |-> OV5640_ERROR]
       ELSE InitFlag(o,
              InitPolarities(InitPixelFormat(InitResolution(
                InitInterface(o, ApplyTable(m, Common_Table)), Resolution), PixelFormat)))
  ELSE [obj |-> o, m |-> m, ret |-> OV5640_OK]

\* OV5640_DeInit
OV5640_DeInit_Mut(o) == o

OV5640_DeInit(o) ==
  IF o.IsInitialized = 1 THEN [o EXCEPT !.IsInitialized = 0] ELSE o

\* OV5640_GetResolution: the size the four output-size registers hold, as a
\* resolution.  out is the output parameter: << >> when not written.
Dimensions_Mut(x_size, y_size) ==
  CASE x_size = 800 -> << OV5640_R800x480 >>
    [] x_size = 640 -> << OV5640_R640x480 >>
    [] x_size = 480 -> << OV5640_R480x272 >>
    [] x_size = 320 -> << OV5640_R320x240 >>
    [] x_size = 160 -> << OV5640_R160x120 >>
    [] OTHER -> << >>

Dimensions(x_size, y_size) ==
  CASE x_size = 800 /\ y_size = 480 -> << OV5640_R800x480 >>
    [] x_size = 640 /\ y_size = 480 -> << OV5640_R640x480 >>
    [] x_size = 480 /\ y_size = 272 -> << OV5640_R480x272 >>
    [] x_size = 320 /\ y_size = 240 -> << OV5640_R320x240 >>
    [] x_size = 160 /\ y_size = 120 -> << OV5640_R160x120 >>
    [] OTHER -> << >>

\* "(uint16_t)tmp << 8" then "|= tmp" of the low byte
Word(hi, lo) == ((hi * 256) % 65536) + lo

OV5640_GetResolution(m) ==
  LET r1 == ReadReg(m, "OV5640_TIMING_DVPHO_HIGH")
      r2 == ReadReg(r1, "OV5640_TIMING_DVPHO_LOW")
      r3 == ReadReg(r2, "OV5640_TIMING_DVPVO_HIGH")
      r4 == ReadReg(r3, "OV5640_TIMING_DVPVO_LOW")
      found == Dimensions(Word(r1.val, r2.val), Word(r3.val, r4.val))
  IN  CASE r1.st # OV5640_OK -> [m |-> r1, ret |-> OV5640_ERROR, out |-> << >>]
        [] r2.st # OV5640_OK -> [m |-> r2, ret |-> OV5640_ERROR, out |-> << >>]
        [] r3.st # OV5640_OK -> [m |-> r3, ret |-> OV5640_ERROR, out |-> << >>]
        [] r4.st # OV5640_OK -> [m |-> r4, ret |-> OV5640_ERROR, out |-> << >>]
        [] OTHER -> [m |-> r4, out |-> found,
                     ret |-> IF found = << >> THEN OV5640_ERROR ELSE OV5640_OK]

----------------------------------------------------------------------------
(* Image tuning *)

\* The level tables of the tuning calls (0-based in the source).
brightness_level == <<64, 48, 32, 16, 0, 16, 32, 48, 64>>
saturation_level == <<0, 16, 32, 48, 64, 80, 96, 112, 128>>
contrast_level == <<16, 20, 24, 28, 32, 36, 40, 44, 48>>
hue_degree_ctrl1 == <<128, 111, 64, 0, 64, 111, 128, 111, 64, 0, 64, 111>>
hue_degree_ctrl2 == <<0, 64, 111, 128, 111, 64, 0, 64, 111, 128, 111, 64>>
hue_degree_ctrl8 == <<50, 50, 50, 2, 2, 2, 1, 1, 1, 49, 49, 49>>

\* tbl[index] of the source, index counted from 0.  The source does not check
\* the index: outside the table the read is undefined and yields whatever byte
\* lies there (stray, chosen by the environment).
TableAt_Mut(tbl, index, stray) == tbl[(index % Len(tbl)) + 1]

TableAt(tbl, index, stray) ==
  IF index + 1 \in 1..Len(tbl) THEN tbl[index + 1] ELSE stray

\* contrast | bright | huedegree | saturation
Composite_Mut(o) == Or8(Or8(o.contrast, o.huedegree), o.saturation)

Composite(o) == Or8(Or8(Or8(o.contrast, o.bright), o.huedegree), o.saturation)

\* The last step of a tuning call, entered only if every write before it
\* succeeded (machine m): the axis code is stored in the handle (o1 is the
\* handle with it) and the composite of the four codes written to SDE_CTRL8.
\* Otherwise the handle stays as it was (o) and the call returns early, the
\* status of the failed write.
CompositeWrite(o, o1, m, early) ==
  IF m.st = OV5640_OK
  THEN LET m1 == WriteReg(m, "OV5640_SDE_CTRL8", Composite(o1))
       IN  [obj |-> o1, m |-> m1, ret |-> Ret(m1.st)]
  ELSE [obj |-> o, m |-> m, ret |-> early]

\* OV5640_SetBrightness: a failure before the composite write is returned as
\* the bus reported it.
BrightnessResult(o, m, Level) ==
  CompositeWrite(o, [o EXCEPT !.bright = IF Level < 0 THEN 1 ELSE 9], m, m.st)

OV5640_SetBrightness(o, m, Level, stray) ==
  BrightnessResult(o,
    WriteIfOK(WriteIfOK(WriteReg(m, "OV5640_ISP_CONTROL01", 255),
      "OV5640_SDE_CTRL7", TableAt(brightness_level, Level + 4, stray)),
      "OV5640_SDE_CTRL0", 7),
    Level)

\* OV5640_SetSaturation
OV5640_SetSaturation(o, m, Level, stray) ==
  CompositeWrite(o, [o EXCEPT !.saturation = 65],
    WriteIfOK(WriteIfOK(WriteIfOK(WriteReg(m, "OV5640_ISP_CONTROL01", 255),
      "OV5640_SDE_CTRL3", TableAt(saturation_level, Level + 4, stray)),
      "OV5640_SDE_CTRL4", TableAt(saturation_level, Level + 4, stray)),
      "OV5640_SDE_CTRL0", 7),
    OV5640_ERROR)

\* OV5640_SetContrast
OV5640_SetContrast(o, m, Level, stray) ==
  CompositeWrite(o, [o EXCEPT !.contrast = 65],
    WriteIfOK(WriteIfOK(WriteIfOK(WriteReg(m, "OV5640_ISP_CONTROL01", 255),
      "OV5640_SDE_CTRL0", 7),
      "OV5640_SDE_CTRL6", TableAt(contrast_level, Level + 4, stray)),
      "OV5640_SDE_CTRL5", TableAt(contrast_level, Level + 4, stray)),
    OV5640_ERROR)

\* OV5640_SetHueDegree
OV5640_SetHueDegree(o, m, Degree, stray) ==
  CompositeWrite(o, [o EXCEPT !.huedegree = TableAt(hue_degree_ctrl8, Degree + 6, stray)],
    WriteIfOK(WriteIfOK(WriteIfOK(WriteReg(m, "OV5640_ISP_CONTROL01", 255),
      "OV5640_SDE_CTRL0", 7),
      "OV5640_SDE_CTRL1", TableAt(hue_degree_ctrl1, Degree + 6, stray)),
      "OV5640_SDE_CTRL2", TableAt(hue_degree_ctrl2, Degree + 6, stray)),
    OV5640_ERROR)

OV5640_MIRROR_FLIP_NONE == "OV5640_MIRROR_FLIP_NONE"
OV5640_FLIP == "OV5640_FLIP"
OV5640_MIRROR == "OV5640_MIRROR"
OV5640_MIRROR_FLIP == "OV5640_MIRROR_FLIP"

\* OV5640_MirrorFlipConfig: "tmp &= 0xF9" and, for the configurations in set,
\* "tmp |= 0x06"
Orientation_Mut(tmp, Config, set) ==
  IF Config \in set THEN Xor8(tmp, 6) ELSE tmp

Orientation(tmp, Config, set) ==
  IF Config \in set THEN Or8(And8(tmp, 249), 6) ELSE And8(tmp, 249)

\* Variant: the second write carries the byte of the first register.
MirrorFlipWrites_Mut(m, tmp3820, Config) ==
  IF m.st # OV5640_OK
  THEN [m |-> m, ret |-> OV5640_ERROR]
  ELSE Result(WriteIfOK(
         WriteReg(m, "OV5640_TIMING_TC_REG20",
                  Orientation(tmp3820, Config, {OV5640_FLIP, OV5640_MIRROR_FLIP})),
         "OV5640_TIMING_TC_REG21",
         Orientation(tmp3820, Config, {OV5640_MIRROR, OV5640_MIRROR_FLIP})))

\* OV5640_MirrorFlipConfig after its second read (m; tmp3820 is the byte the
\* first read delivered, m.val the byte of the second)
MirrorFlipWrites(m, tmp3820, Config) ==
  IF m.st # OV5640_OK
  THEN [m |-> m, ret |-> OV5640_ERROR]
  ELSE Result(WriteIfOK(
         WriteReg(m, "OV5640_TIMING_TC_REG20",
                  Orientation(tmp3820, Config, {OV5640_FLIP, OV5640_MIRROR_FLIP})),
         "OV5640_TIMING_TC_REG21",
         Orientation(m.val, Config, {OV5640_MIRROR, OV5640_MIRROR_FLIP})))

\* OV5640_MirrorFlipConfig after its first read (m)
MirrorFlipRead(m, Config) ==
  IF m.st # OV5640_OK
  THEN [m |-> m, ret |-> OV5640_ERROR]
  ELSE MirrorFlipWrites(ReadReg(m, "OV5640_TIMING_TC_REG21"), m.val, Config)

OV5640_MirrorFlipConfig(m, Config) ==
  MirrorFlipRead(ReadReg(m, "OV5640_TIMING_TC_REG20"), Config)

----------------------------------------------------------------------------
(* Identification *)

\* "*Id = (uint32_t)tmp << 8" then "*Id |= tmp" of the low byte: tmp is a
\* byte, so the shift stays within 32 bits and the low eight bits are clear.
ChipId_Mut(hi, lo) == (lo * 256) + hi

ChipId(hi, lo) == (hi * 256) + lo

\* OV5640_ReadID after its last transaction (m): hi is the high byte if it was
\* read, << >> otherwise.  Id is written half when only the high byte was read.
ReadIDResult(m, hi) ==
  [m |-> m,
   ret |-> Ret(m.st),
   out |-> IF hi = << >> THEN << >>
           ELSE IF m.st = OV5640_OK THEN <<ChipId(hi[1], m.val)>> ELSE <<ChipId(hi[1], 0)>>]

ReadIDLow(m) ==
  IF m.st # OV5640_OK
  THEN ReadIDResult(m, << >>)
  ELSE ReadIDResult(ReadReg(m, "OV5640_CHIP_ID_LOW_BYTE"), <<m.val>>)

\* OV5640_ReadID.  The open capability is called first and its result ignored
\* (openRet); Id is the output parameter, << >> while not written.
OV5640_ReadID(m, openRet) ==
  ReadIDLow(ReadIfOK(
    WriteReg([m EXCEPT !.log = Append(@, <<"O", "IO.Init", 0, openRet>>)],
             "OV5640_SYSTEM_CTROL0", 128),
    "OV5640_CHIP_ID_HIGH_BYTE"))

----------------------------------------------------------------------------
(* Light mode, colour effect, night mode, embedded synchronisation *)

\* A chain "ret = write; if (ret == OV5640_OK) { ret = write; } ..." issues its
\* writes in order up to and including the first one that fails, as a table
\* loop does: the chains below are applied as tables of their writes.

LightModeTable(LightMode) ==
  CASE LightMode = "OV5640_LIGHT_SUNNY" -> OV5640_LightModeSunny
    [] LightMode = "OV5640_LIGHT_OFFICE" -> OV5640_LightModeOffice
    [] LightMode = "OV5640_LIGHT_CLOUDY" -> OV5640_LightModeCloudy
    [] LightMode = "OV5640_LIGHT_HOME" -> OV5640_LightModeHome
    [] OTHER -> OV5640_LightModeAuto

\* The four white-balance writes OV5640_SetLightMode starts with
LightModePrefix ==
  << <<"OV5640_AWB_MANUAL_CONTROL", 0>>, <<"OV5640_AWB_CTRL16", 70>>,
     <<"OV5640_AWB_CTRL17", 248>>, <<"OV5640_AWB_CTRL18", 4>> >>

\* OV5640_SetLightMode after its first four writes left the machine m1: a
\* failure among them is returned as the bus reported it.
LightModeResult(m1, LightMode) ==
  IF m1.st = OV5640_OK
  THEN Result(ApplyTable(m1, Table(LightModeTable(LightMode))))
  ELSE [m |-> m1, ret |-> m1.st]

\* OV5640_SetLightMode
OV5640_SetLightMode(m, LightMode) ==
  LightModeResult(ApplyTable(m, Table(LightModePrefix)), LightMode)

\* The writes of OV5640_SetColorEffect, by effect
ColorEffectWrites(Effect) ==
  CASE Effect = "OV5640_COLOR_EFFECT_BLUE" ->
         << <<"OV5640_ISP_CONTROL01", 255>>, <<"OV5640_SDE_CTRL0", 31>>,
            <<"OV5640_SDE_CTRL3", 160>>, <<"OV5640_SDE_CTRL4", 64>> >>
    [] Effect = "OV5640_COLOR_EFFECT_RED" ->
         << <<"OV5640_ISP_CONTROL01", 255>>, <<"OV5640_SDE_CTRL0", 31>>,
            <<"OV5640_SDE_CTRL3", 128>>, <<"OV5640_SDE_CTRL4", 192>> >>
    [] Effect = "OV5640_COLOR_EFFECT_GREEN" ->
         << <<"OV5640_ISP_CONTROL01", 255>>, <<"OV5640_SDE_CTRL0", 24>>,
            <<"OV5640_SDE_CTRL3", 96>>, <<"OV5640_SDE_CTRL4", 96>> >>
    [] Effect = "OV5640_COLOR_EFFECT_BW" ->
         << <<"OV5640_ISP_CONTROL01", 255>>, <<"OV5640_SDE_CTRL0", 31>>,
            <<"OV5640_SDE_CTRL3", 128>>, <<"OV5640_SDE_CTRL4", 128>> >>
    [] Effect = "OV5640_COLOR_EFFECT_SEPIA" ->
         << <<"OV5640_ISP_CONTROL01", 255>>, <<"OV5640_SDE_CTRL0", 31>>,
            <<"OV5640_SDE_CTRL3", 64>>, <<"OV5640_SDE_CTRL4", 160>> >>
    [] Effect = "OV5640_COLOR_EFFECT_NEGATIVE" ->
         << <<"OV5640_ISP_CONTROL01", 255>>, <<"OV5640_SDE_CTRL0", 71>> >>
    [] OTHER ->
         << <<"OV5640_ISP_CONTROL01", 127>>, <<"OV5640_SDE_CTRL0", 7>> >>

\* OV5640_SetColorEffect
OV5640_SetColorEffect(m, Effect) == Result(ApplyTable(m, Table(ColorEffectWrites(Effect))))

\* The writes of OV5640_NightModeConfig for NIGHT_MODE_ENABLE
NightModeWrites ==
  << <<"OV5640_SC_PLL_CONTRL4", 0>>, <<"OV5640_SC_PLL_CONTRL5", 0>>,
     <<"OV5640_AEC_CTRL00", 124>>, <<"OV5640_AEC_B50_STEP_HIGH", 1>>,
     <<"OV5640_AEC_B50_STEP_LOW", 39>>, <<"OV5640_AEC_B60_STEP_HIGH", 0>>,
     <<"OV5640_AEC_B60_STEP_LOW", 246>>, <<"OV5640_AEC_CTRL0D", 4>>,
     <<"OV5640_AEC_CTRL0E", 4>>, <<"OV5640_AEC_CTRL02", 11>>,
     <<"OV5640_AEC_CTRL03", 136>>, <<"OV5640_AEC_MAX_EXPO_HIGH", 11>>,
     <<"OV5640_AEC_MAX_EXPO_LOW", 136>> >>

\* OV5640_NightModeConfig: the writes above to enable, otherwise bit 2 of
\* AEC_CTRL00 is cleared by a read-modify-write.
OV5640_NightModeConfig(m, Cmd) ==
  IF Cmd = "NIGHT_MODE_ENABLE"
  THEN Result(ApplyTable(m, Table(NightModeWrites)))
  ELSE Result(Modify(ReadReg(m, "OV5640_AEC_CTRL00"), "OV5640_AEC_CTRL00", 251, 0))

\* The six writes of OV5640_EmbeddedSynchroConfig that carry the codes
SynchroWrites(pSyncCodes) ==
  << <<"OV5640_CCIR656_CTRL00", 131>>,
     <<"OV5640_CCIR656_FS", pSyncCodes.FrameStartCode>>,
     <<"OV5640_CCIR656_FE", pSyncCodes.FrameEndCode>>,
     <<"OV5640_CCIR656_LS", pSyncCodes.LineStartCode>>,
     <<"OV5640_CCIR656_LE", pSyncCodes.LineEndCode>>,
     <<"OV5640_656_DUMMY_LINE", 1>> >>

\* and its three clip writes
ClipWrites == << <<"0x4302", 2>>, <<"0x4306", 2>>, <<"0x430a", 2>> >>

\* OV5640_EmbeddedSynchroConfig after the six writes left the machine m1: the
\* clip writes follow only if all six succeeded, and a failure among them is
\* returned as the bus reported it.
SynchroResult(m1) ==
  IF m1.st # OV5640_OK
  THEN [m |-> m1, ret |-> OV5640_ERROR]
  ELSE [m |-> ApplyTable(m1, Table(ClipWrites)),
        ret |-> ApplyTable(m1, Table(ClipWrites)).st]

\* OV5640_EmbeddedSynchroConfig
OV5640_EmbeddedSynchroConfig(m, pSyncCodes) ==
  SynchroResult(ApplyTable(m, Table(SynchroWrites(pSyncCodes))))

----------------------------------------------------------------------------
(* Output size, image window, JPEG and RGB565 mode *)

\* The name the rest of the driver uses for a register these tables give by
\* its address.
RegisterName(addr) ==
  CASE addr = "0x3808" -> "OV5640_TIMING_DVPHO_HIGH"
    [] addr = "0x3809" -> "OV5640_TIMING_DVPHO_LOW"
    [] addr = "0x380a" -> "OV5640_TIMING_DVPVO_HIGH"
    [] addr = "0x380b" -> "OV5640_TIMING_DVPVO_LOW"
    [] addr = "0x3820" -> "OV5640_TIMING_TC_REG20"
    [] addr = "0x3821" -> "OV5640_TIMING_TC_REG21"
    [] addr = "0x3002" -> "OV5640_SYSREM_RESET02"
    [] addr = "0x3006" -> "OV5640_CLOCK_ENABLE02"
    [] addr = "0x4740" -> "OV5640_POLARITY_CTRL"
    [] addr = "0x3a00" -> "OV5640_AEC_CTRL00"
    [] OTHER -> addr

\* A table whose rows give registers by address and 16-bit values, of which
\* the loops write the low byte.
LiteralTable(rows) ==
  Table([i \in 1..Len(rows) |-> <<RegisterName(rows[i][1]), U8(rows[i][2])>>])

\* The table loops that neither test ret nor break: every entry is written in
\* table order whatever the result of the writes before it, and ret is
\* OV5640_ERROR if one of them failed.
ApplyTableAll(m, t) ==
  [m |-> [m EXCEPT !.n = @ + Len(t.rows),
                   !.log = @ \o [i \in 1..Len(t.rows) |->
                                   <<"W", t.rows[i][1], t.rows[i][2],
                                     Status(m.fault, m.n + i)>>],
                   !.regs = [r \in DOMAIN @ |->
                               LET w == {i \in t.tracked : /\ t.rows[i][1] = r
                                                           /\ Status(m.fault, m.n + i) = OV5640_OK}
                               IN  IF w = {} THEN @[r] ELSE t.rows[SetMax(w)][2]],
                   !.st = Status(m.fault, m.n + Len(t.rows))],
   ret |-> IF \E i \in 1..Len(t.rows) : Status(m.fault, m.n + i) # OV5640_OK
           THEN OV5640_ERROR ELSE OV5640_OK]

\* OV5640_OutSize_Set: datas
OutSizeRows(offx, offy, width, height) ==
  << <<"0x3212", 3>>,
     <<"0x3808", width \div 256>>, <<"0x3809", width % 256>>,
     <<"0x380a", height \div 256>>, <<"0x380b", height % 256>>,
     <<"0x3810", offx \div 256>>, <<"0x3811", offx % 256>>,
     <<"0x3812", offy \div 256>>, <<"0x3813", offy % 256>>,
     <<"0x3212", 19>>, <<"0x3212", 163>> >>

\* OV5640_OutSize_Set
OV5640_OutSize_Set(m, offx, offy, width, height) ==
  ApplyTableAll(m, LiteralTable(OutSizeRows(offx, offy, width, height)))

\* OV5640_ImageWin_Set: datas, from the corners xst, yst, xend, yend
ImageWinRows(xst, yst, xend, yend) ==
  << <<"0x3212", 3>>,
     <<"0x3800", xst \div 256>>, <<"0x3801", xst % 256>>,
     <<"0x3802", yst \div 256>>, <<"0x3803", yst % 256>>,
     <<"0x3804", xend \div 256>>, <<"0x3805", xend % 256>>,
     <<"0x3806", yend \div 256>>, <<"0x3807", yend % 256>>,
     <<"0x3212", 19>>, <<"0x3212", 163>> >>

\* OV5640_ImageWin_Set: xend and yend are computed in 16 bits.
OV5640_ImageWin_Set(m, offx, offy, width, height) ==
  ApplyTableAll(m, LiteralTable(ImageWinRows(offx, offy, (offx + width - 1) % 65536,
                                             (offy + height - 1) % 65536)))

\* OV5640_JPEG_Mode
OV5640_JPEG_Mode(m) == ApplyTableAll(m, LiteralTable(OV5640_jpeg_reg_tbl))

\* OV5640_RGB565_Mode
OV5640_RGB565_Mode(m) == ApplyTableAll(m, LiteralTable(ov5640_rgb565_reg_tbl))

----------------------------------------------------------------------------
(* Zoom and pixel clock *)

\* ov5640.h
OV5640_ZOOM_x1 == 68

\* Variant: every resolution halves the factor.
ZoomScaled_Mut(zoom, res) == zoom \div 2

\* "zoom = zoom >> 1U" for 320x240 and 480x272, "zoom >> 2U" for 640x480
ZoomScaled(zoom, res) ==
  CASE res \in {OV5640_R320x240, OV5640_R480x272} -> zoom \div 2
    [] res = OV5640_R640x480 -> zoom \div 4
    [] OTHER -> zoom

\* OV5640_ZoomConfig after the resolution was read back (g)
ZoomWrites(g, Zoom) ==
  IF Zoom = OV5640_ZOOM_x1
  THEN Result(WriteReg(g.m, "OV5640_SCALE_CTRL0", 16))
  ELSE Result(WriteIfOK(WriteReg(g.m, "OV5640_SCALE_CTRL0", 0),
                        "OV5640_SCALE_CTRL1", U8(ZoomScaled(Zoom, g.out[1]))))

ZoomResult(g, Zoom) ==
  IF g.ret # OV5640_OK THEN [m |-> g.m, ret |-> OV5640_ERROR] ELSE ZoomWrites(g, Zoom)

OV5640_ZoomConfig(m, Zoom) == ZoomResult(OV5640_GetResolution(m), Zoom)

\* OV5640_SetPCLK: the bytes for SC_PLL_CONTRL2 and SC_PLL_CONTRL3
PCLKBytes(ClockValue) ==
  CASE ClockValue = "OV5640_PCLK_7M" -> <<56, 22>>
    [] ClockValue = "OV5640_PCLK_8M" -> <<64, 22>>
    [] ClockValue = "OV5640_PCLK_9M" -> <<96, 24>>
    [] ClockValue = "OV5640_PCLK_12M" -> <<96, 22>>
    [] ClockValue = "OV5640_PCLK_48M" -> <<96, 3>>
    [] OTHER -> <<96, 19>>

\* "ret = write(...); ret += write(...); if (ret != OV5640_OK) ret = OV5640_ERROR"
\* (m1 after the first write, m2 after the second)
PCLKResult(m1, m2) ==
  [m |-> m2, ret |-> IF m1.st + m2.st # OV5640_OK THEN OV5640_ERROR ELSE OV5640_OK]

PCLKSecond(m1, ClockValue) ==
  PCLKResult(m1, WriteReg(m1, "OV5640_SC_PLL_CONTRL3", PCLKBytes(ClockValue)[2]))

OV5640_SetPCLK(m, ClockValue) ==
  PCLKSecond(WriteReg(m, "OV5640_SC_PLL_CONTRL2", PCLKBytes(ClockValue)[1]), ClockValue)

----------------------------------------------------------------------------
(* Reading the polarities back *)

\* Variant: HREF and VSYNC taken from each other's bit.
OV5640_GetPolarities_Mut(m, nullArg) ==
  IF nullArg
  THEN [m |-> m, ret |-> OV5640_ERROR, out |-> << >>]
  ELSE LET r == ReadReg(m, "OV5640_POLARITY_CTRL")
       IN  IF r.st # OV5640_OK
           THEN [m |-> r, ret |-> OV5640_ERROR, out |-> << >>]
           ELSE [m |-> r, ret |-> OV5640_OK, out |-> <<Bit(r.val, 5), Bit(r.val, 0), Bit(r.val, 1)>>]

\* OV5640_GetPolarities: nullArg, the handle or one of the three output
\* pointers is NULL.  out is <<PCLK, HREF, VSYNC>>, or << >> when not written.
OV5640_GetPolarities(m, nullArg) ==
  IF nullArg
  THEN [m |-> m, ret |-> OV5640_ERROR, out |-> << >>]
  ELSE LET r == ReadReg(m, "OV5640_POLARITY_CTRL")
       IN  IF r.st # OV5640_OK
           THEN [m |-> r, ret |-> OV5640_ERROR, out |-> << >>]
           ELSE [m |-> r, ret |-> OV5640_OK, out |-> <<Bit(r.val, 5), Bit(r.val, 1), Bit(r.val, 0)>>]

----------------------------------------------------------------------------
(* Autofocus.  The status registers 0x3029 and 0x3023 are updated by the
   sensor firmware: what a poll reads is chosen by the environment.  A status
   stream [ready, busy] delivers busy on every read of a polling phase except
   the ready-th one, which delivers the value the driver waits for (never, if
   ready = 0). *)

StatusAt(stream, j, sentinel) == IF j = stream.ready THEN sentinel ELSE stream.busy

\* Iterations of a polling loop the model is prepared to run.
MaxPolls == 256

\* One read of a status register, delivering v.
ReadStatus(m, reg, v) ==
  LET st == Status(m.fault, m.n + 1)
  IN  [m EXCEPT !.n = @ + 1,
                !.log = Append(@, <<"R", reg, v, st>>),
                !.val = IF st = OV5640_OK THEN v ELSE @,
                !.st = st]

\* The state of a polling loop: the machine, the retry counter, whether the
\* loop has been left, and with what return value.
Polling(m) == [m |-> m, retry |-> 0, done |-> FALSE, ret |-> OV5640_OK]

\* One iteration of the loop of OV5640_Focus_Single: retry is incremented
\* before the read, the budget is tested after a read that is not 0x10.
FocusSinglePoll(s, stream) ==
  LET retry1 == (s.retry + 1) % 65536
      m1 == ReadStatus(s.m, "0x3029", StatusAt(stream, retry1, 16))
  IN  IF m1.val = 16 THEN [m |-> m1, retry |-> retry1, done |-> TRUE, ret |-> OV5640_OK]
      ELSE IF retry1 > 200
           THEN [m |-> m1, retry |-> retry1, done |-> TRUE, ret |-> OV5640_ERROR]
           ELSE [m |-> m1, retry |-> retry1, done |-> FALSE, ret |-> OV5640_OK]

\* The loop of OV5640_Focus_Single from state s, for at most n iterations.
RECURSIVE FocusSingleLoop(_, _, _)
FocusSingleLoop(s, n, stream) ==
  IF s.done THEN s
  ELSE IF n = 1 THEN FocusSinglePoll(s, stream)
  ELSE FocusSingleLoop(FocusSingleLoop(s, n \div 2, stream), n - (n \div 2), stream)

\* What a polling loop returns; a loop still running when the model stops
\* iterating it has returned nothing.
PollResult(s) == [m |-> s.m, ret |-> IF s.done THEN s.ret ELSE "running"]

\* OV5640_Focus_Single: temp holds 0x03 until the first read delivers a value.
OV5640_Focus_Single(m, stream) ==
  PollResult(FocusSingleLoop(Polling([WriteReg(m, "0x3022", 3) EXCEPT !.val = 3]),
                             MaxPolls, stream))

\* One iteration of a polling phase of OV5640_Focus_Constant: do { read;
\* retry++; if (retry > 200) return OV5640_ERROR; } while (temp != 0x00).
FocusConstantPoll(s, stream) ==
  LET retry1 == (s.retry + 1) % 65536
      m1 == ReadStatus(s.m, "0x3023", StatusAt(stream, s.retry + 1, 0))
  IN  IF retry1 > 200
      THEN [m |-> m1, retry |-> retry1, done |-> TRUE, ret |-> OV5640_ERROR]
      ELSE IF m1.val # 0
           THEN [m |-> m1, retry |-> retry1, done |-> FALSE, ret |-> OV5640_OK]
           ELSE [m |-> m1, retry |-> retry1, done |-> TRUE, ret |-> OV5640_OK]

RECURSIVE FocusConstantLoop(_, _, _)
FocusConstantLoop(s, n, stream) ==
  IF s.done THEN s
  ELSE IF n = 1 THEN FocusConstantPoll(s, stream)
  ELSE FocusConstantLoop(FocusConstantLoop(s, n \div 2, stream), n - (n \div 2), stream)

\* Variant: the second phase is entered whatever the first one returned.
FocusConstantPhase2_Mut(p1, stream2) ==
  PollResult(FocusConstantLoop(
    Polling([WriteReg(WriteReg(p1.m, "0x3023", 1), "0x3022", 4) EXCEPT !.val = 4]),
    MaxPolls, stream2))

\* OV5640_Focus_Constant after its first polling phase returned p1: the second
\* command and polling phase, with retry counted from zero again.
FocusConstantPhase2(p1, stream2) ==
  IF p1.ret # OV5640_OK
  THEN p1
  ELSE PollResult(FocusConstantLoop(
         Polling([WriteReg(WriteReg(p1.m, "0x3023", 1), "0x3022", 4) EXCEPT !.val = 4]),
         MaxPolls, stream2))

\* OV5640_Focus_Constant: temp holds the command byte until the first read of
\* a phase delivers a value.
OV5640_Focus_Constant(m, stream1, stream2) ==
  FocusConstantPhase2(
    PollResult(FocusConstantLoop(
      Polling([WriteReg(WriteReg(m, "0x3023", 1), "0x3022", 8) EXCEPT !.val = 8]),
      MaxPolls, stream1)),
    stream2)


\* OV5640_Focus_Send_Single: the command write, its status dropped.
OV5640_Focus_Send_Single(m) == [m |-> WriteReg(m, "0x3022", 3), ret |-> OV5640_OK]

\* Variant: the firmware's idle value 0x70 is taken for the focused one.
OV5640_Focus_Read_Single_Mut(m, v, junk) ==
  [m |-> ReadStatus([m EXCEPT !.val = junk], "0x3029", v),
   ret |-> IF ReadStatus([m EXCEPT !.val = junk], "0x3029", v).val = 112 THEN 1 ELSE 0]

\* OV5640_Focus_Read_Single: one read of the status register, delivering v.
\* temp is not initialised: if the read fails it holds whatever was there
\* (junk, chosen by the environment).
OV5640_Focus_Read_Single(m, v, junk) ==
  [m |-> ReadStatus([m EXCEPT !.val = junk], "0x3029", v),
   ret |-> IF ReadStatus([m EXCEPT !.val = junk], "0x3029", v).val = 16 THEN 1 ELSE 0]
\* A register address the way the source writes it: "0x" and four hexadecimal
\* digits.
HexDigits == <<"0", "1", "2", "3", "4", "5", "6", "7", "8", "9", "a", "b", "c", "d", "e", "f">>

Hex4(n) ==
  "0x" \o HexDigits[((n \div 4096) % 16) + 1] \o HexDigits[((n \div 256) % 16) + 1]
       \o HexDigits[((n \div 16) % 16) + 1] \o HexDigits[(n % 16) + 1]

\* First address of the firmware window, uint16_t addr = 0x8000.
FirmwareBase == 32768

\* addr after i - 1 increments: the address the i-th firmware byte is written to.
FirmwareWindow == [i \in 1..Len(OV5640_AF_Config) |-> Hex4((FirmwareBase + i - 1) % 65536)]

\* The two local tables of OV5640_Focus_Init.
Focus_datas == << <<"0x3000", 32>> >>

Focus_datas2 ==
  << <<"0x3022", 0>>, <<"0x3023", 0>>, <<"0x3024", 0>>, <<"0x3025", 0>>, <<"0x3026", 0>>,
     <<"0x3027", 0>>, <<"0x3028", 0>>, <<"0x3029", 127>>, <<"0x3000", 0>> >>

\* The upload loop of OV5640_Focus_Init: one write per firmware byte to
\* consecutive addresses; the result of the writes is not looked at.
FirmwareUpload(m) ==
  [m EXCEPT !.n = @ + Len(OV5640_AF_Config),
            !.log = @ \o [i \in 1..Len(OV5640_AF_Config) |->
                            <<"W", FirmwareWindow[i], OV5640_AF_Config[i],
                              Status(m.fault, m.n + i)>>],
            !.st = Status(m.fault, m.n + Len(OV5640_AF_Config))]

\* Row index (counted from 0) of the post-upload loop, which runs over
\* sizeof(datas2) / 4 rows but reads them from datas: row 0 is the one row of
\* datas, the later rows lie behind the end of datas and hold whatever the
\* build placed there (stray).
PostUploadRow(index, stray) ==
  IF index < Len(Focus_datas) THEN Focus_datas[index + 1] ELSE stray[index]

\* The post-upload loop from row index on: every row is written, a failed write
\* sets ret (bad) and the loop goes on.
RECURSIVE PostUpload(_, _, _, _)
PostUpload(m, bad, index, stray) ==
  IF index >= Len(Focus_datas2)
  THEN [m |-> m, bad |-> bad]
  ELSE PostUpload(WriteReg(m, PostUploadRow(index, stray)[1],
                           U8(PostUploadRow(index, stray)[2])),
                  bad \/ Status(m.fault, m.n + 1) # OV5640_OK, index + 1, stray)

\* Status polls of OV5640_Focus_Init the model is prepared to run.
MaxInitPolls == 1024

\* One iteration of the polling loop of OV5640_Focus_Init: do { read; i++;
\* if (i > 1000) return 1; } while (tmp != 0x70).
FocusInitPoll(s, stream) ==
  LET m1 == ReadStatus(s.m, "0x3029", StatusAt(stream, s.retry + 1, 112))
  IN  IF s.retry + 1 > 1000
      THEN [m |-> m1, retry |-> s.retry + 1, done |-> TRUE, ret |-> 1]
      ELSE IF m1.val # 112
           THEN [m |-> m1, retry |-> s.retry + 1, done |-> FALSE, ret |-> s.ret]
           ELSE [m |-> m1, retry |-> s.retry + 1, done |-> TRUE, ret |-> s.ret]

RECURSIVE FocusInitLoop(_, _, _)
FocusInitLoop(s, n, stream) ==
  IF s.done THEN s
  ELSE IF n = 1 THEN FocusInitPoll(s, stream)
  ELSE FocusInitLoop(FocusInitLoop(s, n \div 2, stream), n - (n \div 2), stream)

\* The polling loop entered after the post-upload loop left p: i = 0, tmp = 0x8F
\* and ret as the post-upload loop set it.
FocusInitPolling(p) ==
  [m |-> [p.m EXCEPT !.val = 143], retry |-> 0, done |-> FALSE,
   ret |-> IF p.bad THEN OV5640_ERROR ELSE OV5640_OK]

\* OV5640_Focus_Init
OV5640_Focus_Init(m, stray, stream) ==
  PollResult(FocusInitLoop(
    FocusInitPolling(PostUpload(FirmwareUpload(WriteReg(m, Focus_datas[1][1], Focus_datas[1][2])),
                                FALSE, 0, stray)),
    MaxInitPolls, stream))

----------------------------------------------------------------------------
(* The general mode *)

\* ov5640.h: the largest resolution OV5640_Init_General_Mode accepts, taken to
\* be the last row of solution_table.
OV5640_R2592x1944 == 13

UxgaInit_Table == LiteralTable(ov5640_uxga_init_reg_tbl)

\* OV5640_Set_Solution_More
OV5640_Set_Solution_More(m, solution) ==
  OV5640_OutSize_Set(m, 4, 0, solution_table[solution + 1][1], solution_table[solution + 1][2])

\* The chain "mode table, else output size, else polarities" of
\* OV5640_Init_General_Mode: after the output size was set (r2)
GeneralPolarities(r2) ==
  IF r2.ret # OV5640_OK
  THEN [m |-> r2.m, ret |-> OV5640_ERROR]
  ELSE OV5640_SetPolarities(r2.m, FALSE, OV5640_POLARITY_PCLK_HIGH, OV5640_POLARITY_HREF_HIGH,
                            OV5640_POLARITY_VSYNC_HIGH)

\* after the mode table was written (r1)
GeneralSolution(r1, Resolution) ==
  IF r1.ret # OV5640_OK
  THEN [m |-> r1.m, ret |-> OV5640_ERROR]
  ELSE GeneralPolarities(OV5640_Set_Solution_More(r1.m, Resolution))

\* OV5640_Focus_Init is called at the end of either branch, whatever the chain
\* (s) returned, and what it returns is dropped.
GeneralFocus(s, stray, stream) ==
  [m |-> OV5640_Focus_Init(s.m, stray, stream).m, ret |-> s.ret]

\* OV5640_Init_General_Mode after the loop over ov5640_uxga_init_reg_tbl (m1)
GeneralSteps(m1, Resolution, PixelFormat, stray, stream) ==
  IF m1.st # OV5640_OK
  THEN [m |-> m1, ret |-> OV5640_ERROR]
  ELSE GeneralFocus(
         GeneralSolution(IF PixelFormat = OV5640_RGB565
                         THEN OV5640_RGB565_Mode(m1) ELSE OV5640_JPEG_Mode(m1),
                         Resolution),
         stray, stream)

\* OV5640_Init_General_Mode assigns no field of the handle.
GeneralHandle(o, r) == [obj |-> o, m |-> r.m, ret |-> r.ret]

\* OV5640_Init_General_Mode
OV5640_Init_General_Mode(o, m, Resolution, PixelFormat, stray, stream) ==
  IF o.IsInitialized # 0
  THEN [obj |-> o, m |-> m, ret |-> OV5640_OK]
  ELSE IF Resolution > OV5640_R2592x1944 \/ PixelFormat \notin {OV5640_RGB565, OV5640_JPEG}
       THEN [obj |-> o, m |-> m, ret |-> OV5640_ERROR]
       ELSE GeneralHandle(o, GeneralSteps(ApplyTable(m, UxgaInit_Table), Resolution, PixelFormat,
                                          stray, stream))

----------------------------------------------------------------------------
(* The delay.  A uint32_t is held as its two 16-bit halves, [hi, lo]. *)

U32(hi, lo) == [hi |-> hi, lo |-> lo]

\* a + b in 32 bits
Add32(a, b) ==
  U32((a.hi + b.hi + ((a.lo + b.lo) \div 65536)) % 65536, (a.lo + b.lo) % 65536)

\* a - b in 32 bits, as the unsigned subtraction of the loop condition
Sub32(a, b) ==
  U32((a.hi - b.hi - (IF a.lo < b.lo THEN 1 ELSE 0) + 65536) % 65536,
      (a.lo - b.lo + 65536) % 65536)

\* a < b, unsigned
Less32(a, b) == a.hi < b.hi \/ (a.hi = b.hi /\ a.lo < b.lo)

\* Variant: the tick is compared with the tick at which the wait should end.
DelayWaiting_Mut(now, tickstart, Delay) == Less32(now, Add32(tickstart, Delay))

\* "(pObj->IO.GetTick() - tickstart) < Delay" with GetTick returning now
DelayWaiting(now, tickstart, Delay) == Less32(Sub32(now, tickstart), Delay)

----------------------------------------------------------------------------
(* Calls *)

\* Largest resolution argument tried (one above the largest supported).
MaxResolution == 5

ResolutionArgs == 0..MaxResolution

FormatArgs == SupportedFormats \cup {"OV5640_UNSUPPORTED"}

\* Non-OK status codes the bus returns.
BusFailCodes == {OV5640_ERROR, 1}

\* The fault plans that reach a call issuing at most n transactions: no fault,
\* or one failing transaction.
Faults(n, codes) ==
  IF codes = {} THEN {NoFault} ELSE {NoFault} \cup {k :> c : k \in 1..n, c \in codes}

NoObj ==
  [IsInitialized |-> 0, Mode |-> PARALLEL_MODE, VirtualChannelID |-> 0,
   registered |-> FALSE, IOInit |-> "NULL",
   bright |-> 0, saturation |-> 0, contrast |-> 0, huedegree |-> 0]

IdleCall ==
  [op |-> "none", args |-> << >>, ret |-> OV5640_OK, log |-> << >>, out |-> << >>,
   pre |-> NoObj, preRegs |-> << >>]

\* The record of a call: pre and preRegs are the handle and the registers when
\* the call was made.
Rec(op, args, ret, log, out) ==
  [op |-> op, args |-> args, ret |-> ret, log |-> log, out |-> out,
   pre |-> obj, preRegs |-> regs]

Idle == call.op = "none"

\* Bus reads and writes of a log (the open capability is not one).
BusRW(log) == SelectSeq(log, LAMBDA e : e[1] \in {"R", "W"})

\* The call returns: the registers are as the operation left them and the
\* caller holds the return value, the log and the output parameter.
Finish(op, args, r) ==
  /\ obj' = obj
  /\ regs' = r.m.regs
  /\ call' = Rec(op, args, r.ret, r.m.log, << >>)

FinishOut(op, args, r) ==
  /\ obj' = obj
  /\ regs' = r.m.regs
  /\ call' = Rec(op, args, r.ret, r.m.log, r.out)

FinishObj(op, args, r) ==
  /\ obj' = r.obj
  /\ regs' = r.m.regs
  /\ call' = Rec(op, args, r.ret, r.m.log, << >>)

FinishRegister(args, r) ==
  /\ obj' = r.obj
  /\ regs' = regs
  /\ call' = Rec("RegisterBusIO", args, r.ret, r.log, << >>)

CallRegisterBusIO(opens, codes) ==
  /\ Idle
  /\ \E nullObj \in BOOLEAN, pIOInit \in opens, openRet \in {OV5640_OK} \cup codes :
       FinishRegister(<<nullObj, pIOInit, openRet>>,
                      OV5640_RegisterBusIO(obj, nullObj, pIOInit, openRet))

CallInit(resolutions, formats, codes) ==
  /\ Idle
  /\ obj.registered
  /\ \E Resolution \in resolutions, PixelFormat \in formats :
       \E f \in Faults(OV5640_Init(obj, Machine(regs, NoFault), Resolution, PixelFormat).m.n,
                       codes) :
         FinishObj("Init", <<Resolution, PixelFormat>>,
                   OV5640_Init(obj, Machine(regs, f), Resolution, PixelFormat))

CallDeInit ==
  /\ Idle
  /\ obj' = OV5640_DeInit(obj)
  /\ regs' = regs
  /\ call' = Rec("DeInit", << >>, OV5640_OK, << >>, << >>)

CallSetResolution(resolutions, codes) ==
  /\ Idle
  /\ obj.registered
  /\ \E Resolution \in resolutions :
       \E f \in Faults(OV5640_SetResolution(Machine(regs, NoFault), Resolution).m.n, codes) :
         Finish("SetResolution", <<Resolution>>,
                OV5640_SetResolution(Machine(regs, f), Resolution))

CallSetPixelFormat(formats, codes) ==
  /\ Idle
  /\ obj.registered
  /\ \E PixelFormat \in formats :
       \E f \in Faults(OV5640_SetPixelFormat(Machine(regs, NoFault), PixelFormat).m.n, codes) :
         Finish("SetPixelFormat", <<PixelFormat>>,
                OV5640_SetPixelFormat(Machine(regs, f), PixelFormat))

CallGetResolution(codes) ==
  /\ Idle
  /\ obj.registered
  /\ \E f \in Faults(4, codes) :
       FinishOut("GetResolution", << >>, OV5640_GetResolution(Machine(regs, f)))

CallSetPolarities(polarities, codes) ==
  /\ Idle
  /\ obj.registered
  /\ \E nullObj \in BOOLEAN, PclkPolarity \in polarities, HrefPolarity \in polarities,
        VsyncPolarity \in polarities, f \in Faults(1, codes) :
       Finish("SetPolarities", <<nullObj, PclkPolarity, HrefPolarity, VsyncPolarity>>,
              OV5640_SetPolarities(Machine(regs, f), nullObj, PclkPolarity, HrefPolarity,
                                   VsyncPolarity))

CallGetPolarities(codes) ==
  /\ Idle
  /\ obj.registered
  /\ \E nullArg \in BOOLEAN, f \in Faults(1, codes) :
       FinishOut("GetPolarities", <<nullArg>>, OV5640_GetPolarities(Machine(regs, f), nullArg))

\* OV5640_ReadID calls the open capability of the handle, which must be there.
CallReadID(codes) ==
  /\ Idle
  /\ obj.registered
  /\ obj.IOInit # "NULL"
  /\ \E openRet \in {OV5640_OK} \cup codes, f \in Faults(3, codes) :
       FinishOut("ReadID", <<openRet>>, OV5640_ReadID(Machine(regs, f), openRet))

CallSetBrightness(levels, strays, codes) ==
  /\ Idle
  /\ obj.registered
  /\ \E Level \in levels, stray \in strays, f \in Faults(4, codes) :
       FinishObj("SetBrightness", <<Level, stray>>,
                 OV5640_SetBrightness(obj, Machine(regs, f), Level, stray))

CallSetSaturation(levels, strays, codes) ==
  /\ Idle
  /\ obj.registered
  /\ \E Level \in levels, stray \in strays, f \in Faults(5, codes) :
       FinishObj("SetSaturation", <<Level, stray>>,
                 OV5640_SetSaturation(obj, Machine(regs, f), Level, stray))

CallSetContrast(levels, strays, codes) ==
  /\ Idle
  /\ obj.registered
  /\ \E Level \in levels, stray \in strays, f \in Faults(5, codes) :
       FinishObj("SetContrast", <<Level, stray>>,
                 OV5640_SetContrast(obj, Machine(regs, f), Level, stray))

CallSetHueDegree(degrees, strays, codes) ==
  /\ Idle
  /\ obj.registered
  /\ \E Degree \in degrees, stray \in strays, f \in Faults(5, codes) :
       FinishObj("SetHueDegree", <<Degree, stray>>,
                 OV5640_SetHueDegree(obj, Machine(regs, f), Degree, stray))

CallMirrorFlipConfig(configs) ==
  /\ Idle
  /\ obj.registered
  /\ \E Config \in configs :
       Finish("MirrorFlipConfig", <<Config>>,
              OV5640_MirrorFlipConfig(Machine(regs, NoFault), Config))

CallFocusSingle(streams) ==
  /\ Idle
  /\ obj.registered
  /\ \E stream \in streams :
       Finish("Focus_Single", <<stream>>,
              OV5640_Focus_Single(Machine(regs, NoFault), stream))

CallFocusSendSingle ==
  /\ Idle
  /\ obj.registered
  /\ Finish("Focus_Send_Single", << >>, OV5640_Focus_Send_Single(Machine(regs, NoFault)))

CallFocusReadSingle(values, codes, junks) ==
  /\ Idle
  /\ obj.registered
  /\ \E v \in values, f \in Faults(1, codes), junk \in junks :
       Finish("Focus_Read_Single", <<v, junk>>,
              OV5640_Focus_Read_Single(Machine(regs, f), v, junk))

CallFocusConstant(streams) ==
  /\ Idle
  /\ obj.registered
  /\ \E pair \in streams :
       Finish("Focus_Constant", pair,
              OV5640_Focus_Constant(Machine(regs, NoFault), pair[1], pair[2]))

CallSetLightMode(modes, codes) ==
  /\ Idle
  /\ obj.registered
  /\ \E LightMode \in modes :
       \E f \in Faults(OV5640_SetLightMode(Machine(regs, NoFault), LightMode).m.n, codes) :
         Finish("SetLightMode", <<LightMode>>,
                OV5640_SetLightMode(Machine(regs, f), LightMode))

CallSetColorEffect(effects, codes) ==
  /\ Idle
  /\ obj.registered
  /\ \E Effect \in effects :
       \E f \in Faults(OV5640_SetColorEffect(Machine(regs, NoFault), Effect).m.n, codes) :
         Finish("SetColorEffect", <<Effect>>,
                OV5640_SetColorEffect(Machine(regs, f), Effect))

CallNightModeConfig(cmds, codes) ==
  /\ Idle
  /\ obj.registered
  /\ \E Cmd \in cmds :
       \E f \in Faults(OV5640_NightModeConfig(Machine(regs, NoFault), Cmd).m.n, codes) :
         Finish("NightModeConfig", <<Cmd>>,
                OV5640_NightModeConfig(Machine(regs, f), Cmd))

CallEmbeddedSynchroConfig(syncs, codes) ==
  /\ Idle
  /\ obj.registered
  /\ \E pSyncCodes \in syncs :
       \E f \in Faults(OV5640_EmbeddedSynchroConfig(Machine(regs, NoFault), pSyncCodes).m.n,
                       codes) :
         Finish("EmbeddedSynchroConfig", <<pSyncCodes>>,
                OV5640_EmbeddedSynchroConfig(Machine(regs, f), pSyncCodes))

CallEnableDVPMode(codes) ==
  /\ Idle
  /\ obj.registered
  /\ \E f \in Faults(Len(DVPMode_regs), codes) :
       Finish("EnableDVPMode", << >>, OV5640_EnableDVPMode(Machine(regs, f)))

CallEnableMIPIMode(codes) ==
  /\ Idle
  /\ obj.registered
  /\ \E f \in Faults(Len(MIPIMode_regs), codes) :
       Finish("EnableMIPIMode", << >>, OV5640_EnableMIPIMode(Machine(regs, f)))

CallOutSizeSet(windows, codes) ==
  /\ Idle
  /\ obj.registered
  /\ \E w \in windows, f \in Faults(Len(OutSizeRows(0, 0, 0, 0)), codes) :
       Finish("OutSize_Set", w, OV5640_OutSize_Set(Machine(regs, f), w[1], w[2], w[3], w[4]))

CallImageWinSet(windows, codes) ==
  /\ Idle
  /\ obj.registered
  /\ \E w \in windows, f \in Faults(Len(ImageWinRows(0, 0, 0, 0)), codes) :
       Finish("ImageWin_Set", w, OV5640_ImageWin_Set(Machine(regs, f), w[1], w[2], w[3], w[4]))

CallJPEGMode(codes) ==
  /\ Idle
  /\ obj.registered
  /\ \E f \in Faults(Len(OV5640_jpeg_reg_tbl), codes) :
       Finish("JPEG_Mode", << >>, OV5640_JPEG_Mode(Machine(regs, f)))

CallRGB565Mode(codes) ==
  /\ Idle
  /\ obj.registered
  /\ \E f \in Faults(Len(ov5640_rgb565_reg_tbl), codes) :
       Finish("RGB565_Mode", << >>, OV5640_RGB565_Mode(Machine(regs, f)))

\* stray is what the build placed behind the one-row table of OV5640_Focus_Init.
CallFocusInit(strays, streams) ==
  /\ Idle
  /\ obj.registered
  /\ \E stray \in strays, stream \in streams :
       Finish("Focus_Init", <<stray, stream>>,
              OV5640_Focus_Init(Machine(regs, NoFault), stray, stream))

\* The caller takes the result of the call; the next call can be made.
Return ==
  /\ ~Idle
  /\ call' = IdleCall
  /\ UNCHANGED <<obj, regs>>

----------------------------------------------------------------------------
(* Initial states: a zero-initialised handle whose interface mode and virtual
   channel the application has chosen, and a sensor after power-on. *)

VirtualChannels == 0..3

PowerOnRegs == [r \in TrackedRegs |-> 0]

InitHandle ==
  /\ obj \in {NoObj} \cup {[NoObj EXCEPT !.Mode = SERIAL_MODE, !.VirtualChannelID = vc] :
                             vc \in VirtualChannels}
  /\ call = IdleCall

\* Life cycle on a bus that never fails.
InitLife == InitHandle /\ regs = PowerOnRegs

NextLife ==
  \/ CallRegisterBusIO({"NULL", "fn"}, BusFailCodes)
  \/ CallInit(ResolutionArgs, FormatArgs, {})
  \/ CallDeInit
  \/ CallSetResolution(ResolutionArgs, {})
  \/ CallSetPixelFormat(FormatArgs, {})
  \/ CallGetResolution({})
  \/ Return

Spec == InitLife /\ [][NextLife]_vars

\* Life cycle on a bus where any one transaction of a call may fail.
FaultResolutions == {OV5640_R320x240, MaxResolution}

FaultFormats == {OV5640_RGB565, OV5640_JPEG, "OV5640_UNSUPPORTED"}

NextFault ==
  \/ CallRegisterBusIO({"fn"}, BusFailCodes)
  \/ CallInit(FaultResolutions, FaultFormats, {OV5640_ERROR})
  \/ CallDeInit
  \/ Return

InitFault ==
  /\ obj \in {NoObj, [NoObj EXCEPT !.Mode = SERIAL_MODE, !.VirtualChannelID = 2]}
  /\ call = IdleCall
  /\ regs = PowerOnRegs

SpecFault == InitFault /\ [][NextFault]_vars

\* Image tuning on a bus that never fails, from any of a few contents of the
\* two orientation registers.
InitBytes == {0, 2, 4, 6, 33, 255}

Levels == -4..4

Degrees == -6..5

MirrorFlipConfigs ==
  {OV5640_MIRROR_FLIP_NONE, OV5640_FLIP, OV5640_MIRROR, OV5640_MIRROR_FLIP}

InitTune ==
  /\ obj = NoObj
  /\ call = IdleCall
  /\ \E b20 \in InitBytes, b21 \in InitBytes :
       regs = [PowerOnRegs EXCEPT !["OV5640_TIMING_TC_REG20"] = b20,
                                  !["OV5640_TIMING_TC_REG21"] = b21]

NextTune ==
  \/ CallRegisterBusIO({"fn"}, {})
  \/ CallSetBrightness(Levels, {0}, {})
  \/ CallSetSaturation(Levels, {0}, {})
  \/ CallSetContrast(Levels, {0}, {})
  \/ CallSetHueDegree(Degrees, {0}, {})
  \/ CallMirrorFlipConfig(MirrorFlipConfigs)
  \/ Return

SpecTune == InitTune /\ [][NextTune]_vars

\* Image tuning on a bus where any one write of a call may fail.
FaultLevels == {-4, -1, 0, 4}

FaultDegrees == {-6, -3, 0, 3}

InitTuneFault == obj = NoObj /\ call = IdleCall /\ regs = PowerOnRegs

NextTuneFault ==
  \/ CallRegisterBusIO({"fn"}, {})
  \/ CallSetBrightness(FaultLevels, {0}, BusFailCodes)
  \/ CallSetSaturation(FaultLevels, {0}, BusFailCodes)
  \/ CallSetContrast(FaultLevels, {0}, BusFailCodes)
  \/ CallSetHueDegree(FaultDegrees, {0}, BusFailCodes)
  \/ Return

SpecTuneFault == InitTuneFault /\ [][NextTuneFault]_vars

\* Polarity and identification on a bus where a transaction may fail, for a
\* few contents of the chip identification registers.
MaxPolarity == 2

IdBytes == {0, 64, 86, 255}

InitAccess ==
  /\ obj = NoObj
  /\ call = IdleCall
  /\ \E hi \in IdBytes, lo \in IdBytes :
       regs = [PowerOnRegs EXCEPT !["OV5640_CHIP_ID_HIGH_BYTE"] = hi,
                                  !["OV5640_CHIP_ID_LOW_BYTE"] = lo]

NextAccess ==
  \/ CallRegisterBusIO({"fn"}, {OV5640_ERROR})
  \/ CallSetPolarities(0..MaxPolarity, BusFailCodes)
  \/ CallGetPolarities(BusFailCodes)
  \/ CallReadID(BusFailCodes)
  \/ Return

SpecAccess == InitAccess /\ [][NextAccess]_vars

\* Reading the resolution back on a bus where a read may fail, from any content
\* of the four output-size registers made of the bytes of the preset sizes and
\* a few others.
SizeHighBytes == {0, 1, 2, 3, 255}

SizeLowBytes == {0, 16, 32, 64, 120, 128, 160, 224, 240, 255}

InitSize ==
  /\ obj = NoObj
  /\ call = IdleCall
  /\ \E xh \in SizeHighBytes, xl \in SizeLowBytes, yh \in SizeHighBytes, yl \in SizeLowBytes :
       regs = [PowerOnRegs EXCEPT !["OV5640_TIMING_DVPHO_HIGH"] = xh,
                                  !["OV5640_TIMING_DVPHO_LOW"] = xl,
                                  !["OV5640_TIMING_DVPVO_HIGH"] = yh,
                                  !["OV5640_TIMING_DVPVO_LOW"] = yl]

NextSize ==
  \/ CallRegisterBusIO({"fn"}, {})
  \/ CallGetResolution(BusFailCodes)
  \/ Return

SpecSize == InitSize /\ [][NextSize]_vars

\* Image tuning with levels inside and outside the tables, on a bus that never
\* fails.  MaxLevel is the largest level tried; a read behind a table delivers
\* one of StrayBytes.
MaxLevel == 5

RangeLevels == (0 - MaxLevel)..MaxLevel

RangeDegrees == (0 - MaxLevel - 2)..(MaxLevel + 1)

StrayBytes == {85, 170}

InitRange == obj = NoObj /\ call = IdleCall /\ regs = PowerOnRegs

NextRange ==
  \/ CallRegisterBusIO({"fn"}, {})
  \/ CallSetBrightness(RangeLevels, StrayBytes, {})
  \/ CallSetSaturation(RangeLevels, StrayBytes, {})
  \/ CallSetContrast(RangeLevels, StrayBytes, {})
  \/ CallSetHueDegree(RangeDegrees, StrayBytes, {})
  \/ Return

SpecRange == InitRange /\ [][NextRange]_vars

\* The table-driven setters on a bus where any one transaction of a call may
\* fail.
LightModes ==
  {"OV5640_LIGHT_AUTO", "OV5640_LIGHT_SUNNY", "OV5640_LIGHT_OFFICE", "OV5640_LIGHT_CLOUDY",
   "OV5640_LIGHT_HOME"}

ColorEffects ==
  {"OV5640_COLOR_EFFECT_NONE", "OV5640_COLOR_EFFECT_BLUE", "OV5640_COLOR_EFFECT_RED",
   "OV5640_COLOR_EFFECT_GREEN", "OV5640_COLOR_EFFECT_BW", "OV5640_COLOR_EFFECT_SEPIA",
   "OV5640_COLOR_EFFECT_NEGATIVE"}

NightModeCmds == {"NIGHT_MODE_ENABLE", "NIGHT_MODE_DISABLE"}

SyncCodes ==
  { [FrameStartCode |-> 1, FrameEndCode |-> 2, LineStartCode |-> 3, LineEndCode |-> 4],
    [FrameStartCode |-> 255, FrameEndCode |-> 255, LineStartCode |-> 255, LineEndCode |-> 255] }

InitTable == obj = NoObj /\ call = IdleCall /\ regs = PowerOnRegs

NextTable ==
  \/ CallRegisterBusIO({"fn"}, {})
  \/ CallSetResolution({OV5640_R800x480}, {OV5640_ERROR})
  \/ CallSetPixelFormat({OV5640_YUV422, OV5640_JPEG}, {OV5640_ERROR})
  \/ CallSetLightMode(LightModes, BusFailCodes)
  \/ CallSetColorEffect(ColorEffects, {OV5640_ERROR})
  \/ CallNightModeConfig(NightModeCmds, {OV5640_ERROR})
  \/ CallEnableDVPMode({OV5640_ERROR})
  \/ CallEnableMIPIMode({OV5640_ERROR})
  \/ CallEmbeddedSynchroConfig(SyncCodes, BusFailCodes)
  \/ Return

SpecTable == InitTable /\ [][NextTable]_vars

\* Output size, image window and the two mode tables on such a bus, for a few
\* windows <<offx, offy, width, height>>.
Windows == {<<16, 4, 1280, 800>>, <<0, 0, 0, 0>>}

NextWindow ==
  \/ CallRegisterBusIO({"fn"}, {})
  \/ CallOutSizeSet(Windows, BusFailCodes)
  \/ CallImageWinSet(Windows, BusFailCodes)
  \/ CallJPEGMode({OV5640_ERROR})
  \/ CallRGB565Mode({OV5640_ERROR})
  \/ Return

SpecWindow == InitTable /\ [][NextWindow]_vars

\* Autofocus polling on a bus that never fails.  MaxReady bounds the poll at
\* which the status register first shows the awaited value.
MaxReady == 202

Streams(busies) == {[ready |-> r, busy |-> b] : r \in 0..MaxReady, b \in busies}

\* Status streams of the two phases of OV5640_Focus_Constant: every first-ready
\* poll of one phase with the other phase ending at once, and the boundary
\* cases of both phases with each other.
EdgeStreams(busies) ==
  {s \in Streams(busies) : s.ready \in {0, 1, 199, 200, 201, MaxReady}}

StreamPairs(busies) ==
  (Streams(busies) \X {[ready |-> 1, busy |-> b] : b \in busies})
    \cup ({[ready |-> 1, busy |-> b] : b \in busies} \X Streams(busies))
    \cup (EdgeStreams(busies) \X EdgeStreams(busies))

\* Memory behind the one-row table of OV5640_Focus_Init, as eight further rows:
\* the second local table, if the build placed it right there, or zeroes.
StrayLayouts ==
  { [i \in 1..(Len(Focus_datas2) - 1) |-> Focus_datas2[i]],
    [i \in 1..(Len(Focus_datas2) - 1) |-> <<"0x0000", 0>>] }

\* Last poll at which the status register of OV5640_Focus_Init first shows 0x70.
MaxInitReady == 1002

InitStreams ==
  {[ready |-> r, busy |-> b] : r \in {0, 1, 2, 999, 1000, 1001, MaxInitReady}, b \in {0, 127}}

InitFocus == obj = NoObj /\ call = IdleCall /\ regs = PowerOnRegs

NextFocus ==
  \/ CallRegisterBusIO({"fn"}, {})
  \/ CallFocusSingle(Streams({0, 112}))
  \/ CallFocusSendSingle
  \/ CallFocusReadSingle({0, 16, 112}, {OV5640_ERROR}, {0, 16})
  \/ CallFocusConstant(StreamPairs({1}))
  \/ CallFocusInit(StrayLayouts, InitStreams)
  \/ Return

SpecFocus == InitFocus /\ [][NextFocus]_vars


\* Zoom after any resolution was set (or none), on a bus where one transaction
\* of the call may fail.  The factors include the four of ov5640.h and two
\* wider than a byte.
ZoomArgs == {0, 17, 34, OV5640_ZOOM_x1, 324, 1023}

CallZoomConfig(zooms, codes) ==
  /\ Idle
  /\ obj.registered
  /\ \E Zoom \in zooms, f \in Faults(6, codes) :
       Finish("ZoomConfig", <<Zoom>>, OV5640_ZoomConfig(Machine(regs, f), Zoom))

NextZoom ==
  \/ CallRegisterBusIO({"fn"}, {})
  \/ CallSetResolution(OV5640_R160x120..OV5640_R800x480, {})
  \/ CallZoomConfig(ZoomArgs, BusFailCodes)
  \/ Return

SpecZoom == InitFocus /\ [][NextZoom]_vars

\* Pixel clock on a bus where each of the two writes returns any status.
ClockArgs ==
  {"OV5640_PCLK_7M", "OV5640_PCLK_8M", "OV5640_PCLK_9M", "OV5640_PCLK_12M",
   "OV5640_PCLK_24M", "OV5640_PCLK_48M", "OV5640_PCLK_OTHER"}

PairFaults(codes) == [1..2 -> {OV5640_OK} \cup codes]

CallSetPCLK(clocks, codes) ==
  /\ Idle
  /\ obj.registered
  /\ \E ClockValue \in clocks, f \in PairFaults(codes) :
       Finish("SetPCLK", <<ClockValue>>, OV5640_SetPCLK(Machine(regs, f), ClockValue))

NextClock ==
  \/ CallRegisterBusIO({"fn"}, {})
  \/ CallSetPCLK(ClockArgs, BusFailCodes \cup {2})
  \/ Return

SpecClock == InitFocus /\ [][NextClock]_vars

\* The pixel format on a bus where any one transaction of a call may fail,
\* from a few contents of the three registers the JPEG format patches.
PatchBytes == {0, 28, 255}

InitFormat ==
  /\ obj = NoObj
  /\ call = IdleCall
  /\ \E b21 \in PatchBytes, rst \in PatchBytes, clk \in PatchBytes :
       regs = [PowerOnRegs EXCEPT !["OV5640_TIMING_TC_REG21"] = b21,
                                  !["OV5640_SYSREM_RESET02"] = rst,
                                  !["OV5640_CLOCK_ENABLE02"] = clk]

NextFormat ==
  \/ CallRegisterBusIO({"fn"}, {})
  \/ CallSetPixelFormat(SupportedFormats, {OV5640_ERROR})
  \/ Return

SpecFormat == InitFormat /\ [][NextFormat]_vars

\* The general mode and the life cycle, on a bus that fails at none or at one
\* of a few transactions (in the first table, in the mode table, in the output
\* size, the polarity write), with the autofocus firmware ready at the first
\* poll or never.
GeneralFaults == {NoFault} \cup {k :> OV5640_ERROR : k \in {1, 207, 208, 253, 260, 264}}

GeneralStreams == {[ready |-> r, busy |-> 0] : r \in {0, 1}}

CallInitGeneralMode(resolutions, formats, faults, strays, streams) ==
  /\ Idle
  /\ obj.registered
  /\ \E Resolution \in resolutions, PixelFormat \in formats, f \in faults,
        stray \in strays, stream \in streams :
       FinishObj("Init_General_Mode", <<Resolution, PixelFormat, stray, stream>>,
                 OV5640_Init_General_Mode(obj, Machine(regs, f), Resolution, PixelFormat,
                                          stray, stream))

NextGeneral ==
  \/ CallRegisterBusIO({"fn"}, {})
  \/ CallInitGeneralMode({OV5640_R320x240, OV5640_R800x480},
                         {OV5640_RGB565, OV5640_JPEG, OV5640_YUV422},
                         GeneralFaults, StrayLayouts, GeneralStreams)
  \/ CallInit({OV5640_R640x480}, {OV5640_RGB565}, {})
  \/ CallDeInit
  \/ Return

SpecGeneral == InitFocus /\ [][NextGeneral]_vars

\* OV5640_Delay, one evaluation of its loop condition at a time.  The tick
\* capability counts in steps of a fixed size (stride): between two calls of
\* it the tick has advanced by one step or not at all.  The record of the call
\* holds the local tickstart, the tick last returned (now) and, for the
\* properties, the milliseconds that truly passed since tickstart (waited,
\* which stops counting at 2^32 - 1); pc tells whether the call is in its loop
\* or has returned OV5640_OK.
DelayRuns ==
  { [Delay |-> U32(0, d), stride |-> U32(0, s), start |-> t] :
      d \in {0, 1, 2, 3, 5}, s \in 1..3, t \in {U32(0, 0), U32(65535, 65533), U32(65535, 65535)} }
    \cup { [Delay |-> U32(65535, 65535), stride |-> U32(256, 0), start |-> U32(0, 0)],
           [Delay |-> U32(65280, 0), stride |-> U32(256, 0), start |-> U32(65535, 65535)] }

Waited(w, adv) ==
  IF Less32(Add32(w, adv), w) THEN U32(65535, 65535) ELSE Add32(w, adv)

\* "tickstart = pObj->IO.GetTick();"
DelayStart(runs) ==
  /\ Idle
  /\ obj.registered
  /\ \E run \in runs :
       call' = [op |-> "Delay", args |-> <<run.Delay, run.stride>>, ret |-> OV5640_OK,
                log |-> << >>, out |-> << >>, pre |-> obj, preRegs |-> regs, pc |-> "loop",
                tickstart |-> run.start, now |-> run.start, waited |-> U32(0, 0)]
  /\ UNCHANGED <<obj, regs>>

\* One evaluation of "while ((pObj->IO.GetTick() - tickstart) < Delay)" with
\* the tick advanced by adv since it was last read; "return OV5640_OK" when
\* the condition is false.
DelayPoll(adv) ==
  /\ call.op = "Delay"
  /\ call.pc = "loop"
  /\ call' = [call EXCEPT
                !.now = Add32(@, adv),
                !.waited = Waited(@, adv),
                !.pc = IF DelayWaiting(Add32(call.now, adv), call.tickstart, call.args[1])
                       THEN "loop" ELSE "returned"]
  /\ UNCHANGED <<obj, regs>>

DelayPollSame == DelayPoll(U32(0, 0))

DelayPollAdvanced == call.op = "Delay" /\ DelayPoll(call.args[2])

NextDelay ==
  \/ CallRegisterBusIO({"fn"}, {})
  \/ DelayStart(DelayRuns)
  \/ DelayPollSame
  \/ DelayPollAdvanced
  \/ Return

\* The tick keeps advancing.
SpecDelay == InitFocus /\ [][NextDelay]_vars /\ WF_vars(DelayPollAdvanced)
----------------------------------------------------------------------------
(* Properties *)

AllOK(log) == \A i \in 1..Len(log) : log[i][4] = OV5640_OK

Last(log) == log[Len(log)]

\* Reads of register reg in a log
StatusReads(log, reg) == Len(SelectSeq(log, LAMBDA e : e[1] = "R" /\ e[2] = reg))

\* Bus transactions of an OV5640_Init call that runs to its end on handle o
InitTransactions(o, PixelFormat) ==
  Len(OV5640_Common)
    + (IF o.Mode = SERIAL_MODE THEN Len(MIPIMode_regs) + 2 ELSE Len(DVPMode_regs))
    + Len(OV5640_VGA)
    + Len(PixelFormatTable(PixelFormat).rows) + (IF PixelFormat = OV5640_JPEG THEN 6 ELSE 0)
    + 1

\* C1: once OV5640_Init has returned OV5640_OK the handle is initialized and
\* stays so until OV5640_DeInit; every OV5640_Init call on an initialized
\* handle, whatever its arguments, issues no bus read or write, returns
\* OV5640_OK and leaves the handle (and the registers) unchanged.
C1_InitOnce ==
  [][ /\ (call.op = "none" /\ call'.op = "Init" /\ call'.ret = OV5640_OK)
           => obj'.IsInitialized = 1
      /\ (obj.IsInitialized = 1 /\ obj'.IsInitialized # 1) => call'.op = "DeInit"
      /\ (call.op = "none" /\ call'.op = "Init" /\ obj.IsInitialized = 1)
           => /\ BusRW(call'.log) = << >>
              /\ call'.ret = OV5640_OK
              /\ obj' = obj
              /\ regs' = regs
    ]_vars

C1_SecondInit ==
  /\ call.op = "Init"
  /\ call.pre.IsInitialized = 1
  /\ call.args = <<MaxResolution, "OV5640_UNSUPPORTED">>
  /\ call.ret = OV5640_OK
  /\ call.log = << >>
  /\ obj = call.pre

\* C2: the initialized flag goes from false to true only in an OV5640_Init
\* call that returns OV5640_OK after all its transactions succeeded, from the
\* first entry of the common table to the polarity write; an OV5640_Init call
\* on an uninitialized handle in which a transaction fails or an argument is
\* unsupported returns OV5640_ERROR and leaves the flag false.
C2_FlagOnlyOnFullSuccess ==
  [][ /\ (obj.IsInitialized = 0 /\ obj'.IsInitialized # 0)
           => /\ call'.op = "Init"
              /\ call'.ret = OV5640_OK
              /\ obj'.IsInitialized = 1
              /\ AllOK(call'.log)
              /\ Len(call'.log) = InitTransactions(obj, call'.args[2])
              /\ \A i \in 1..Len(OV5640_Common) : call'.log[i][2] = OV5640_Common[i][1]
              /\ Last(call'.log)[2] = "OV5640_POLARITY_CTRL"
      /\ (/\ call.op = "none" /\ call'.op = "Init" /\ obj.IsInitialized = 0
          /\ \/ ~AllOK(call'.log)
             \/ call'.args[1] > OV5640_R800x480
             \/ call'.args[2] \notin SupportedFormats)
           => (call'.ret = OV5640_ERROR /\ obj'.IsInitialized = 0)
    ]_vars

C2_PolarityWriteFails ==
  /\ call.op = "Init"
  /\ call.args[2] = OV5640_JPEG
  /\ call.pre.IsInitialized = 0
  /\ Len(call.log) = InitTransactions(call.pre, OV5640_JPEG)
  /\ Last(call.log)[2] = "OV5640_POLARITY_CTRL"
  /\ Last(call.log)[4] # OV5640_OK
  /\ call.ret = OV5640_ERROR
  /\ obj.IsInitialized = 0

\* C3: on a bus that never fails, OV5640_Init on an uninitialized handle with
\* a supported resolution and pixel format returns OV5640_OK, and so does
\* OV5640_SetResolution with a supported resolution; OV5640_GetResolution
\* called next returns OV5640_OK with that resolution.
C3_ResolutionRoundTrip ==
  /\ (/\ call.op = "Init" /\ call.pre.IsInitialized = 0
      /\ call.args[1] <= OV5640_R800x480 /\ call.args[2] \in SupportedFormats)
       => call.ret = OV5640_OK
  /\ (call.op = "SetResolution" /\ call.args[1] <= OV5640_R800x480)
       => call.ret = OV5640_OK
  /\ (/\ call.op \in {"Init", "SetResolution"}
      /\ call.ret = OV5640_OK
      /\ call.op = "Init" => call.pre.IsInitialized = 0)
       => /\ OV5640_GetResolution(Machine(regs, NoFault)).ret = OV5640_OK
          /\ OV5640_GetResolution(Machine(regs, NoFault)).out = <<call.args[1]>>

C3_InitThenGet ==
  /\ call.op = "Init"
  /\ call.pre.IsInitialized = 0
  /\ call.args = <<OV5640_R160x120, OV5640_JPEG>>
  /\ call.ret = OV5640_OK
  /\ OV5640_GetResolution(Machine(regs, NoFault)).out = <<OV5640_R160x120>>

TuningCalls == {"SetBrightness", "SetSaturation", "SetContrast", "SetHueDegree"}

\* The handle fields a tuning call leaves alone
OtherAxes(op) ==
  {"bright", "saturation", "contrast", "huedegree"}
    \ {CASE op = "SetBrightness" -> "bright"
         [] op = "SetSaturation" -> "saturation"
         [] op = "SetContrast" -> "contrast"
         [] op = "SetHueDegree" -> "huedegree"}

\* C4: on a bus that never fails, OV5640_RegisterBusIO sets the four axis codes
\* to 0x01, 0x41, 0x41, 0x32, and each tuning call with an in-range level
\* changes only its own code, writes SDE_CTRL8 once, as its last transaction,
\* with the bitwise OR of its own new code and the codes the other three axes
\* had before the call; brightness at a level >= 0 has the code 0x09.
C4_CompositePreserved ==
  /\ (call.op = "RegisterBusIO" /\ ~call.args[1])
       => /\ obj.bright = 1 /\ obj.saturation = 65
          /\ obj.contrast = 65 /\ obj.huedegree = 50
  /\ call.op \in TuningCalls
       => /\ call.ret = OV5640_OK
          /\ \A axis \in OtherAxes(call.op) : obj[axis] = call.pre[axis]
          /\ (call.op = "SetBrightness" /\ call.args[1] >= 0) => obj.bright = 9
          /\ Last(call.log)[1] = "W"
          /\ Last(call.log)[2] = "OV5640_SDE_CTRL8"
          /\ Last(call.log)[3] = Or8(Or8(obj.bright, obj.saturation),
                                     Or8(obj.contrast, obj.huedegree))
          /\ Len(SelectSeq(call.log, LAMBDA e : e[2] = "OV5640_SDE_CTRL8")) = 1

C4_SaturationAfterBrightness ==
  /\ call.op = "SetSaturation"
  /\ call.pre.bright = 9
  /\ call.pre.huedegree = 2
  /\ Last(call.log) = <<"W", "OV5640_SDE_CTRL8", 75, OV5640_OK>>

\* C5: on a bus that never fails, applying OV5640_MirrorFlipConfig again with
\* the configuration of a call that just returned leaves TIMING_TC_REG20 and
\* TIMING_TC_REG21 (and every other register) as that call left them.
C5_MirrorFlipIdempotent ==
  call.op = "MirrorFlipConfig"
    => /\ call.ret = OV5640_OK
       /\ OV5640_MirrorFlipConfig(Machine(regs, NoFault), call.args[1]).ret = OV5640_OK
       /\ OV5640_MirrorFlipConfig(Machine(regs, NoFault), call.args[1]).m.regs = regs

C5_MirrorOnMixedBits ==
  /\ call.op = "MirrorFlipConfig"
  /\ call.args = <<OV5640_MIRROR>>
  /\ call.preRegs["OV5640_TIMING_TC_REG20"] = 2
  /\ call.preRegs["OV5640_TIMING_TC_REG21"] = 4
  /\ regs["OV5640_TIMING_TC_REG20"] = 0
  /\ regs["OV5640_TIMING_TC_REG21"] = 6

\* C6 (as stated): OV5640_Focus_Single returns OV5640_ERROR after exactly 200
\* reads of 0x3029 when none of them delivers 0x10, and OV5640_OK after exactly
\* k reads when the k-th read, k <= 199, is the first to deliver 0x10.
C6_Budget200 ==
  call.op = "Focus_Single"
    => /\ (call.args[1].ready = 0 /\ call.args[1].busy # 16)
            => /\ call.ret = OV5640_ERROR
               /\ StatusReads(call.log, "0x3029") = 200
       /\ call.args[1].ready \in 1..199
            => /\ call.ret = OV5640_OK
               /\ StatusReads(call.log, "0x3029") = call.args[1].ready

\* C7 (as stated): a polling phase of OV5640_Focus_Constant in which no read of
\* 0x3023 delivers 0x00 makes the call return OV5640_ERROR after exactly 200
\* reads of that phase, the count starting from zero in each phase; a phase in
\* which the k-th read, k <= 199, is the first to deliver 0x00 completes.
C7_PhaseBudget200 ==
  call.op = "Focus_Constant"
    => /\ call.args[1].ready = 0
            => /\ call.ret = OV5640_ERROR
               /\ StatusReads(call.log, "0x3023") = 200
       /\ (call.args[1].ready \in 1..199 /\ call.args[2].ready = 0)
            => /\ call.ret = OV5640_ERROR
               /\ StatusReads(call.log, "0x3023") = call.args[1].ready + 200
       /\ (call.args[1].ready \in 1..199 /\ call.args[2].ready \in 1..199)
            => /\ call.ret = OV5640_OK
               /\ StatusReads(call.log, "0x3023") = call.args[1].ready + call.args[2].ready

\* C8: OV5640_SetPolarities with a polarity argument that is neither the LOW
\* nor the HIGH value of its axis, whatever the other two arguments, returns
\* OV5640_ERROR and issues no bus transaction.
C8_InvalidPolarityRejected ==
  (/\ call.op = "SetPolarities"
   /\ \/ call.args[2] \notin {OV5640_POLARITY_PCLK_LOW, OV5640_POLARITY_PCLK_HIGH}
      \/ call.args[3] \notin {OV5640_POLARITY_HREF_LOW, OV5640_POLARITY_HREF_HIGH}
      \/ call.args[4] \notin {OV5640_POLARITY_VSYNC_LOW, OV5640_POLARITY_VSYNC_HIGH})
    => /\ call.ret = OV5640_ERROR
       /\ call.log = << >>
       /\ regs = call.preRegs

C8_InvalidHref ==
  /\ call.op = "SetPolarities"
  /\ call.args = <<FALSE, OV5640_POLARITY_PCLK_HIGH, MaxPolarity, OV5640_POLARITY_VSYNC_LOW>>
  /\ call.ret = OV5640_ERROR
  /\ call.log = << >>

ChipIdRegs == <<"OV5640_CHIP_ID_HIGH_BYTE", "OV5640_CHIP_ID_LOW_BYTE">>

\* C9: the first bus transaction of OV5640_ReadID is the write of 0x80 to
\* SYSTEM_CTROL0, followed by the read of the high and then of the low chip-ID
\* register; if all three succeed it returns OV5640_OK with Id = hi * 256 + lo;
\* if one fails it returns OV5640_ERROR and the failed transaction is the last
\* one of the call.
C9_ReadID ==
  call.op = "ReadID"
    => /\ Len(BusRW(call.log)) \in 1..3
       /\ BusRW(call.log)[1][1] = "W"
       /\ BusRW(call.log)[1][2] = "OV5640_SYSTEM_CTROL0"
       /\ BusRW(call.log)[1][3] = 128
       /\ \A i \in 2..Len(BusRW(call.log)) :
            /\ BusRW(call.log)[i][1] = "R"
            /\ BusRW(call.log)[i][2] = ChipIdRegs[i - 1]
       /\ \A i \in 1..(Len(BusRW(call.log)) - 1) : BusRW(call.log)[i][4] = OV5640_OK
       /\ AllOK(BusRW(call.log))
            => /\ Len(BusRW(call.log)) = 3
               /\ call.ret = OV5640_OK
               /\ call.out = <<(call.preRegs["OV5640_CHIP_ID_HIGH_BYTE"] * 256)
                                + call.preRegs["OV5640_CHIP_ID_LOW_BYTE"]>>
       /\ ~AllOK(BusRW(call.log)) => call.ret = OV5640_ERROR

C9_Id5640 ==
  /\ call.op = "ReadID"
  /\ call.preRegs["OV5640_CHIP_ID_HIGH_BYTE"] = 86
  /\ call.preRegs["OV5640_CHIP_ID_LOW_BYTE"] = 64
  /\ call.ret = OV5640_OK
  /\ call.out = <<22080>>

\* C10: OV5640_RegisterBusIO returns OV5640_ERROR without calling anything when
\* the handle is null, OV5640_ERROR when the open capability is null, the
\* (non-OK) result of the open capability when its call fails, and OV5640_OK
\* exactly when the handle is not null and the open call returned OV5640_OK;
\* the open capability is called at most once.
C10_RegisterBusIO ==
  call.op = "RegisterBusIO"
    => /\ call.args[1] => (call.ret = OV5640_ERROR /\ call.log = << >> /\ obj = call.pre)
       /\ (~call.args[1] /\ call.args[2] = "NULL")
            => (call.ret = OV5640_ERROR /\ call.log = << >>)
       /\ (~call.args[1] /\ call.args[2] # "NULL" /\ call.args[3] # OV5640_OK)
            => (call.ret # OV5640_OK /\ call.ret = call.args[3])
       /\ call.ret = OV5640_OK
            <=> (~call.args[1] /\ call.args[2] # "NULL" /\ call.args[3] = OV5640_OK)
       /\ Len(SelectSeq(call.log, LAMBDA e : e[1] = "O")) <= 1
       /\ BusRW(call.log) = << >>

C10_OpenFails ==
  /\ call.op = "RegisterBusIO"
  /\ call.args = <<FALSE, "fn", 1>>
  /\ call.ret = 1
  /\ Len(call.log) = 1

\* C11: OV5640_Init on an uninitialized handle with a resolution above
\* OV5640_R800x480 or a pixel format outside the five supported ones returns
\* OV5640_ERROR, issues no bus transaction and leaves the handle and the
\* registers unchanged; OV5640_SetResolution with such a resolution and
\* OV5640_SetPixelFormat with such a format return OV5640_ERROR without any bus
\* transaction.
C11_UnsupportedRejected ==
  /\ (/\ call.op = "Init" /\ call.pre.IsInitialized = 0
      /\ (call.args[1] > OV5640_R800x480 \/ call.args[2] \notin SupportedFormats))
       => /\ call.ret = OV5640_ERROR
          /\ call.log = << >>
          /\ obj = call.pre
          /\ regs = call.preRegs
  /\ (call.op = "SetResolution" /\ call.args[1] > OV5640_R800x480)
       => (call.ret = OV5640_ERROR /\ call.log = << >> /\ regs = call.preRegs)
  /\ (call.op = "SetPixelFormat" /\ call.args[1] \notin SupportedFormats)
       => (call.ret = OV5640_ERROR /\ call.log = << >> /\ regs = call.preRegs)

C11_UnsupportedFormat ==
  /\ call.op = "SetPixelFormat"
  /\ call.args = <<"OV5640_UNSUPPORTED">>
  /\ call.ret = OV5640_ERROR
  /\ call.log = << >>

\* Status reads of a log, all registers
Reads(log) == SelectSeq(log, LAMBDA e : e[1] = "R")

\* C12 (as stated): OV5640_Focus_Init returns a code other than OV5640_OK and
\* OV5640_ERROR after exactly 1000 reads of 0x3029 when none of them delivers
\* 0x70, and stops polling at the read that delivers 0x70 when that read is
\* within the budget.
C12_Budget1000 ==
  call.op = "Focus_Init"
    => /\ call.ret \in {OV5640_OK, OV5640_ERROR, 1}
       /\ call.args[2].ready = 0
            => /\ call.ret \notin {OV5640_OK, OV5640_ERROR}
               /\ StatusReads(call.log, "0x3029") = 1000
       /\ call.args[2].ready \in 1..1000
            => StatusReads(call.log, "0x3029") = call.args[2].ready

\* Width and height of the five presets, by resolution code
PresetSize == << <<160, 120>>, <<320, 240>>, <<480, 272>>, <<640, 480>>, <<800, 480>> >>

SizeRegs ==
  <<"OV5640_TIMING_DVPHO_HIGH", "OV5640_TIMING_DVPHO_LOW",
    "OV5640_TIMING_DVPVO_HIGH", "OV5640_TIMING_DVPVO_LOW">>

\* Width and height the output-size registers r hold
SizeIn(r) ==
  << (r["OV5640_TIMING_DVPHO_HIGH"] * 256) + r["OV5640_TIMING_DVPHO_LOW"],
     (r["OV5640_TIMING_DVPVO_HIGH"] * 256) + r["OV5640_TIMING_DVPVO_LOW"] >>

\* C13: OV5640_GetResolution reads the four output-size registers in order and
\* stops at the first read that fails, returning OV5640_ERROR with the output
\* parameter not written; when the four reads succeed it returns OV5640_OK with
\* preset r exactly when the width and height in the registers are those of r,
\* and OV5640_ERROR with the output parameter not written when they are those
\* of no preset; it writes no register.
C13_ReverseLookup ==
  call.op = "GetResolution"
    => /\ Len(call.log) \in 1..4
       /\ \A i \in 1..Len(call.log) : call.log[i][1] = "R" /\ call.log[i][2] = SizeRegs[i]
       /\ \A i \in 1..(Len(call.log) - 1) : call.log[i][4] = OV5640_OK
       /\ regs = call.preRegs
       /\ ~AllOK(call.log) => (call.ret = OV5640_ERROR /\ call.out = << >>)
       /\ AllOK(call.log)
            => /\ Len(call.log) = 4
               /\ \A r \in OV5640_R160x120..OV5640_R800x480 :
                    (call.ret = OV5640_OK /\ call.out = <<r>>)
                      <=> SizeIn(call.preRegs) = PresetSize[r + 1]
               /\ (\A r \in OV5640_R160x120..OV5640_R800x480 :
                     SizeIn(call.preRegs) # PresetSize[r + 1])
                    => (call.ret = OV5640_ERROR /\ call.out = << >>)

C13_WidthOnlyMatches ==
  /\ call.op = "GetResolution"
  /\ SizeIn(call.preRegs) = <<800, 272>>
  /\ AllOK(call.log)
  /\ call.ret = OV5640_ERROR
  /\ call.out = << >>

\* C14: OV5640_DeInit issues no bus transaction, returns OV5640_OK and leaves
\* the handle uninitialized, with every other field and every register as
\* before; an OV5640_Init call with supported arguments on an uninitialized
\* handle, in particular one that follows Init and DeInit, issues the full
\* sequence from the common table to the polarity write and sets the flag.
C14_DeInitClearsFlag ==
  /\ call.op = "DeInit"
       => /\ call.ret = OV5640_OK
          /\ call.log = << >>
          /\ regs = call.preRegs
          /\ obj.IsInitialized = 0
          /\ obj = [call.pre EXCEPT !.IsInitialized = 0]
  /\ (/\ call.op = "Init" /\ call.pre.IsInitialized = 0
      /\ call.args[1] <= OV5640_R800x480 /\ call.args[2] \in SupportedFormats)
       => /\ call.ret = OV5640_OK
          /\ obj.IsInitialized = 1
          /\ AllOK(call.log)
          /\ Len(call.log) = InitTransactions(call.pre, call.args[2])
          /\ SubSeq(call.log, 1, Len(OV5640_Common)) = Common_Table.oklog
          /\ Last(call.log)[2] = "OV5640_POLARITY_CTRL"

\* An Init call on an uninitialized handle whose sensor already holds the
\* registers of an earlier Init (VGA size, polarity 0x22): it follows a DeInit.
C14_InitAfterDeInit ==
  /\ call.op = "Init"
  /\ call.pre.IsInitialized = 0
  /\ call.preRegs["OV5640_POLARITY_CTRL"] = 34
  /\ call.preRegs["OV5640_TIMING_DVPHO_HIGH"] = 2
  /\ call.args = <<OV5640_R800x480, OV5640_RGB565>>
  /\ call.ret = OV5640_OK
  /\ obj.IsInitialized = 1
  /\ Len(call.log) = InitTransactions(call.pre, OV5640_RGB565)

\* Values written to register reg in a log, in order
Written(log, reg) ==
  LET w == SelectSeq(log, LAMBDA e : e[1] = "W" /\ e[2] = reg)
  IN  [i \in 1..Len(w) |-> w[i][3]]

\* C15: the brightness, saturation and contrast calls write the entry
\* Level + 4 (counted from 0) of their 9-entry table, and the hue call the
\* entries Degree + 6 of its 12-entry tables, for every Level in -4..4 and
\* Degree in -6..5; with a level outside that range the call does not return
\* before the table access but goes on with what lies behind the table (the
\* stray byte), returning OV5640_OK on a bus that never fails.
C15_LevelIndex ==
  /\ (call.op = "SetBrightness" /\ call.args[1] \in -4..4)
       => Written(call.log, "OV5640_SDE_CTRL7") = <<brightness_level[call.args[1] + 5]>>
  /\ (call.op = "SetSaturation" /\ call.args[1] \in -4..4)
       => /\ Written(call.log, "OV5640_SDE_CTRL3") = <<saturation_level[call.args[1] + 5]>>
          /\ Written(call.log, "OV5640_SDE_CTRL4") = <<saturation_level[call.args[1] + 5]>>
  /\ (call.op = "SetContrast" /\ call.args[1] \in -4..4)
       => /\ Written(call.log, "OV5640_SDE_CTRL6") = <<contrast_level[call.args[1] + 5]>>
          /\ Written(call.log, "OV5640_SDE_CTRL5") = <<contrast_level[call.args[1] + 5]>>
  /\ (call.op = "SetHueDegree" /\ call.args[1] \in -6..5)
       => /\ Written(call.log, "OV5640_SDE_CTRL1") = <<hue_degree_ctrl1[call.args[1] + 7]>>
          /\ Written(call.log, "OV5640_SDE_CTRL2") = <<hue_degree_ctrl2[call.args[1] + 7]>>
          /\ obj.huedegree = hue_degree_ctrl8[call.args[1] + 7]
  /\ (call.op = "SetBrightness" /\ call.args[1] \notin -4..4)
       => /\ call.ret = OV5640_OK
          /\ Written(call.log, "OV5640_SDE_CTRL7") = <<call.args[2]>>
  /\ (call.op = "SetSaturation" /\ call.args[1] \notin -4..4)
       => /\ call.ret = OV5640_OK
          /\ Written(call.log, "OV5640_SDE_CTRL3") = <<call.args[2]>>
          /\ Written(call.log, "OV5640_SDE_CTRL4") = <<call.args[2]>>
  /\ (call.op = "SetContrast" /\ call.args[1] \notin -4..4)
       => /\ call.ret = OV5640_OK
          /\ Written(call.log, "OV5640_SDE_CTRL6") = <<call.args[2]>>
          /\ Written(call.log, "OV5640_SDE_CTRL5") = <<call.args[2]>>
  /\ (call.op = "SetHueDegree" /\ call.args[1] \notin -6..5)
       => /\ call.ret = OV5640_OK
          /\ Written(call.log, "OV5640_SDE_CTRL1") = <<call.args[2]>>
          /\ Written(call.log, "OV5640_SDE_CTRL2") = <<call.args[2]>>
          /\ obj.huedegree = call.args[2]

C15_HueBehindTable ==
  /\ call.op = "SetHueDegree"
  /\ call.args = <<6, 170>>
  /\ call.ret = OV5640_OK
  /\ obj.huedegree = 170
  /\ Last(call.log) = <<"W", "OV5640_SDE_CTRL8", 235, OV5640_OK>>

\* Kind and register of each transaction of a log
Shape(log) == [i \in 1..Len(log) |-> <<log[i][1], log[i][2]>>]

\* The len transactions of a log that follow its first from ones
Seg(log, from, len) == SubSeq(log, from + 1, from + len)

\* The resolution tables, by resolution code
PresetRows == <<OV5640_QQVGA, OV5640_QVGA, OV5640_480x272, OV5640_VGA, OV5640_WVGA>>

\* Transactions of the interface-mode step of OV5640_Init on handle o
InterfaceShape(o) ==
  IF o.Mode = SERIAL_MODE
  THEN Shape(MIPIMode_Table.oklog) \o << <<"R", "0x4814">>, <<"W", "0x4814">> >>
  ELSE Shape(DVPMode_Table.oklog)

JpegPatchShape ==
  << <<"R", "OV5640_TIMING_TC_REG21">>, <<"W", "OV5640_TIMING_TC_REG21">>,
     <<"R", "OV5640_SYSREM_RESET02">>, <<"W", "OV5640_SYSREM_RESET02">>,
     <<"R", "OV5640_CLOCK_ENABLE02">>, <<"W", "OV5640_CLOCK_ENABLE02">> >>

\* Transactions of the pixel-format step of OV5640_Init
FormatShape(PixelFormat) ==
  Shape(PixelFormatTable(PixelFormat).oklog)
    \o (IF PixelFormat = OV5640_JPEG THEN JpegPatchShape ELSE << >>)

\* C16: on a bus that never fails, an OV5640_Init call on an uninitialized
\* handle with supported arguments issues, in this order and nothing else: the
\* common table in table order; in serial mode the MIPI table and then the read
\* and the write of register 0x4814, in parallel mode the DVP table; the table
\* of the resolution; the table of the pixel format and, for JPEG, the three
\* read-modify-write patches; the polarity write (0x22); and the handle is
\* initialized when the call returns, its last transaction being that write.
C16_InitOrder ==
  (/\ call.op = "Init" /\ call.pre.IsInitialized = 0
   /\ call.args[1] <= OV5640_R800x480 /\ call.args[2] \in SupportedFormats)
    => /\ AllOK(call.log)
       /\ Seg(call.log, 0, Len(OV5640_Common)) = Table(OV5640_Common).oklog
       /\ Shape(call.log)
            = Shape(Table(OV5640_Common).oklog)
                \o InterfaceShape(call.pre)
                \o Shape(Table(PresetRows[call.args[1] + 1]).oklog)
                \o FormatShape(call.args[2])
                \o << <<"W", "OV5640_POLARITY_CTRL">> >>
       /\ Seg(call.log, Len(OV5640_Common) + Len(InterfaceShape(call.pre)),
              Len(PresetRows[call.args[1] + 1]))
            = Table(PresetRows[call.args[1] + 1]).oklog
       /\ Last(call.log) = <<"W", "OV5640_POLARITY_CTRL", 34, OV5640_OK>>
       /\ obj.IsInitialized = 1
       /\ call.ret = OV5640_OK

C16_SerialJpegOrder ==
  /\ call.op = "Init"
  /\ call.pre.IsInitialized = 0
  /\ call.pre.Mode = SERIAL_MODE
  /\ call.pre.VirtualChannelID = 3
  /\ call.args = <<OV5640_R480x272, OV5640_JPEG>>
  /\ call.log[Len(OV5640_Common) + Len(MIPIMode_regs) + 2]
       = <<"W", "0x4814", 234, OV5640_OK>>
  /\ obj.IsInitialized = 1

\* C17: when the k-th write of the common table fails in an OV5640_Init call,
\* the call has issued exactly the first k entries of the common table, in
\* table order, and nothing after the failed write; it returns OV5640_ERROR
\* and the handle stays uninitialized.
C17_CommonTableAbort ==
  (call.op = "Init" /\ call.pre.IsInitialized = 0)
    => \A k \in 1..Len(OV5640_Common) :
         (k <= Len(call.log) /\ call.log[k][4] # OV5640_OK)
           => /\ Len(call.log) = k
              /\ \A i \in 1..k :
                   /\ call.log[i][1] = "W"
                   /\ call.log[i][2] = OV5640_Common[i][1]
                   /\ call.log[i][3] = OV5640_Common[i][2]
              /\ \A i \in 1..(k - 1) : call.log[i][4] = OV5640_OK
              /\ call.ret = OV5640_ERROR
              /\ obj.IsInitialized = 0
              /\ obj = call.pre

C17_HundredthWriteFails ==
  /\ call.op = "Init"
  /\ call.pre.IsInitialized = 0
  /\ Len(call.log) = 100
  /\ call.log[100] = <<"W", OV5640_Common[100][1], OV5640_Common[100][2], OV5640_ERROR>>
  /\ call.ret = OV5640_ERROR

\* Register and value of the writes of a log, in order
RegWrites(log) ==
  LET w == SelectSeq(log, LAMBDA e : e[1] = "W")
  IN  [i \in 1..Len(w) |-> <<w[i][2], w[i][3]>>]

IsPrefix(s, t) == Len(s) <= Len(t) /\ SubSeq(t, 1, Len(s)) = s

\* The log of the table-driven setter call c had the bus not failed
FaultFreeLog(c) ==
  CASE c.op = "SetResolution" ->
         OV5640_SetResolution(Machine(c.preRegs, NoFault), c.args[1]).m.log
    [] c.op = "SetPixelFormat" ->
         OV5640_SetPixelFormat(Machine(c.preRegs, NoFault), c.args[1]).m.log
    [] c.op = "SetLightMode" ->
         OV5640_SetLightMode(Machine(c.preRegs, NoFault), c.args[1]).m.log
    [] c.op = "SetColorEffect" ->
         OV5640_SetColorEffect(Machine(c.preRegs, NoFault), c.args[1]).m.log
    [] c.op = "NightModeConfig" ->
         OV5640_NightModeConfig(Machine(c.preRegs, NoFault), c.args[1]).m.log
    [] c.op = "EnableDVPMode" -> OV5640_EnableDVPMode(Machine(c.preRegs, NoFault)).m.log
    [] c.op = "EnableMIPIMode" -> OV5640_EnableMIPIMode(Machine(c.preRegs, NoFault)).m.log
    [] c.op = "EmbeddedSynchroConfig" ->
         OV5640_EmbeddedSynchroConfig(Machine(c.preRegs, NoFault), c.args[1]).m.log

TableSetters ==
  {"SetResolution", "SetPixelFormat", "SetLightMode", "SetColorEffect", "NightModeConfig",
   "EnableDVPMode", "EnableMIPIMode", "EmbeddedSynchroConfig"}

\* A call of one of the table-driven setters (night mode: to enable)
TableSetterCall ==
  /\ call.op \in TableSetters
  /\ call.op = "NightModeConfig" => call.args[1] = "NIGHT_MODE_ENABLE"

\* The call wrote its registers in the order of the fault-free run, issued no
\* write after a write that failed and, if one failed, returned an error.
AbortsAtFirstFailure ==
  /\ IsPrefix(RegWrites(call.log), RegWrites(FaultFreeLog(call)))
  /\ \A k \in 1..Len(call.log) :
       (call.log[k][1] = "W" /\ call.log[k][4] # OV5640_OK)
         => /\ \A i \in (k + 1)..Len(call.log) : call.log[i][1] # "W"
            /\ call.ret # OV5640_OK

\* C18 (as stated): each of OV5640_SetResolution, OV5640_SetPixelFormat,
\* OV5640_SetLightMode, OV5640_SetColorEffect, OV5640_NightModeConfig (enable),
\* OV5640_EnableDVPMode, OV5640_EnableMIPIMode and OV5640_EmbeddedSynchroConfig
\* writes its registers in table order, one write per entry, issues no write
\* after the first write that fails and then returns an error.
C18_SettersAbort == TableSetterCall => AbortsAtFirstFailure

WindowCalls == {"OutSize_Set", "ImageWin_Set", "JPEG_Mode", "RGB565_Mode"}

\* C19 (as stated): OV5640_OutSize_Set, OV5640_ImageWin_Set, OV5640_JPEG_Mode
\* and OV5640_RGB565_Mode write their table in order, write no later entry
\* after the first write that fails, and then return an error.
C19_WindowTablesAbort ==
  call.op \in WindowCalls
    => /\ \A k \in 1..Len(call.log) : call.log[k][1] = "W"
       /\ \A k \in 1..Len(call.log) :
            call.log[k][4] # OV5640_OK => (Len(call.log) = k /\ call.ret # OV5640_OK)

\* Transactions of an OV5640_Focus_Init call before its post-upload writes: the
\* halt write and the firmware upload
UploadLength == 1 + Len(OV5640_AF_Config)

\* The halt write and the upload of an OV5640_Focus_Init call are as the source
\* has them: 0x20 to 0x3000, then byte i of the firmware to 0x8000 + i.
HaltAndUpload ==
  /\ call.log[1] = <<"W", "0x3000", 32, OV5640_OK>>
  /\ \A i \in 1..Len(OV5640_AF_Config) :
       call.log[1 + i] = <<"W", Hex4(32768 + i - 1), OV5640_AF_Config[i], OV5640_OK>>
  /\ call.log[2][2] = "0x8000"
  /\ \A i \in (UploadLength + Len(Focus_datas2) + 1)..Len(call.log) :
       call.log[i][1] = "R" /\ call.log[i][2] = "0x3029"
  /\ Len(call.log) > UploadLength + Len(Focus_datas2)

\* C20 (as stated): an OV5640_Focus_Init call writes 0x20 to 0x3000, then the
\* firmware bytes in order to consecutive addresses from 0x8000, then the
\* post-upload table (0x00 to 0x3022..0x3028, 0x7f to 0x3029, 0x00 to 0x3000),
\* and only then reads 0x3029 for the first time.
C20_FocusInitOrder ==
  call.op = "Focus_Init"
    => /\ HaltAndUpload
       /\ RegWrites(Seg(call.log, UploadLength, Len(Focus_datas2))) = Focus_datas2


\* Positions of the writes of a log
WritePos(log) == {i \in 1..Len(log) : log[i][1] = "W"}

\* The first polling phase of the call ran out of its budget: the 200 reads
\* that follow the two command writes all delivered a value other than 0x00
\* and one more read was made.
PhaseOneTimeout(log) ==
  /\ Len(log) >= 203
  /\ \A i \in 3..203 : log[i][1] = "R"
  /\ \A i \in 3..202 : log[i][3] # 0

\* C21: in OV5640_Focus_Constant each phase writes 0x01 to 0x3023, then its
\* command to 0x3022 (0x08 in phase one, 0x04 in phase two) and then only
\* reads 0x3023; the writes of phase two directly follow a read of phase one
\* that delivered 0x00; after a timeout of phase one no write of phase two is
\* issued; OV5640_OK is returned only with both phases done and the last read
\* of phase two delivering 0x00.
C21_TwoPhaseHandshake ==
  call.op = "Focus_Constant"
    => /\ Len(call.log) >= 3
       /\ call.log[1] = <<"W", "0x3023", 1, OV5640_OK>>
       /\ call.log[2] = <<"W", "0x3022", 8, OV5640_OK>>
       /\ \A i \in (1..Len(call.log)) \ WritePos(call.log) :
            call.log[i][1] = "R" /\ call.log[i][2] = "0x3023"
       /\ \/ WritePos(call.log) = {1, 2}
          \/ \E k \in 4..(Len(call.log) - 2) :
               /\ WritePos(call.log) = {1, 2, k, k + 1}
               /\ call.log[k - 1][3] = 0
               /\ call.log[k] = <<"W", "0x3023", 1, OV5640_OK>>
               /\ call.log[k + 1] = <<"W", "0x3022", 4, OV5640_OK>>
       /\ PhaseOneTimeout(call.log)
            => WritePos(call.log) = {1, 2} /\ call.ret = OV5640_ERROR
       /\ call.ret = OV5640_OK
            => Cardinality(WritePos(call.log)) = 4 /\ Last(call.log)[3] = 0

\* Both phases complete at their 199th poll.
C21_BothPhasesLate ==
  /\ call.op = "Focus_Constant"
  /\ call.ret = OV5640_OK
  /\ call.args[1].ready = 199
  /\ call.args[2].ready = 199
  /\ Len(call.log) = 402
  /\ call.log[202] = <<"W", "0x3023", 1, OV5640_OK>>

\* C22: after an OV5640_MirrorFlipConfig call that returned OV5640_OK, bits 2
\* and 1 of TIMING_TC_REG20 are both set if the configuration flips and both
\* clear otherwise, bits 2 and 1 of TIMING_TC_REG21 are both set if it mirrors
\* and both clear otherwise, whatever the registers held before, and the other
\* six bits of both registers are as they were before the call.
C22_OrientationBits ==
  (call.op = "MirrorFlipConfig" /\ call.ret = OV5640_OK)
    => /\ And8(regs["OV5640_TIMING_TC_REG20"], 6)
            = (IF call.args[1] \in {OV5640_FLIP, OV5640_MIRROR_FLIP} THEN 6 ELSE 0)
       /\ And8(regs["OV5640_TIMING_TC_REG21"], 6)
            = (IF call.args[1] \in {OV5640_MIRROR, OV5640_MIRROR_FLIP} THEN 6 ELSE 0)
       /\ And8(regs["OV5640_TIMING_TC_REG20"], 249)
            = And8(call.preRegs["OV5640_TIMING_TC_REG20"], 249)
       /\ And8(regs["OV5640_TIMING_TC_REG21"], 249)
            = And8(call.preRegs["OV5640_TIMING_TC_REG21"], 249)
       /\ \A r \in TrackedRegs \ {"OV5640_TIMING_TC_REG20", "OV5640_TIMING_TC_REG21"} :
            regs[r] = call.preRegs[r]

\* A flip applied to a mirrored image whose TIMING_TC_REG21 has bit 5 set.
C22_FlipKeepsBit5 ==
  /\ call.op = "MirrorFlipConfig"
  /\ call.args = <<OV5640_FLIP>>
  /\ call.ret = OV5640_OK
  /\ call.preRegs["OV5640_TIMING_TC_REG20"] = 0
  /\ call.preRegs["OV5640_TIMING_TC_REG21"] = 39
  /\ regs["OV5640_TIMING_TC_REG20"] = 6
  /\ regs["OV5640_TIMING_TC_REG21"] = 33

\* The four axis codes of a handle
AxisCodes(o) == <<o.bright, o.saturation, o.contrast, o.huedegree>>

\* C23 (as stated): whenever a tuning call (OV5640_SetBrightness,
\* OV5640_SetSaturation, OV5640_SetContrast, OV5640_SetHueDegree) returns an
\* error because one of its bus writes failed, the four axis codes of the
\* handle are what they were before the call.
C23_CodesKeptOnError ==
  (call.op \in TuningCalls /\ call.ret # OV5640_OK)
    => AxisCodes(obj) = AxisCodes(call.pre)

\* The shift the zoom factor undergoes at a resolution, as a divisor
ZoomDivisor == <<1, 2, 2, 4, 1>>

\* The resolution whose size the registers r hold, or << >>
PresetIn(r) ==
  IF \E p \in 1..Len(PresetSize) : PresetSize[p] = SizeIn(r)
  THEN << (CHOOSE p \in 1..Len(PresetSize) : PresetSize[p] = SizeIn(r)) - 1 >>
  ELSE << >>

\* The writes of OV5640_ZoomConfig for factor z at resolution res
ZoomWritesFor(z, res) ==
  IF z = 68
  THEN << <<"OV5640_SCALE_CTRL0", 16>> >>
  ELSE << <<"OV5640_SCALE_CTRL0", 0>>,
          <<"OV5640_SCALE_CTRL1", (z \div ZoomDivisor[res + 1]) % 256>> >>

\* C24: OV5640_ZoomConfig first reads the four output-size registers; when a
\* read fails or the size is that of no preset it returns OV5640_ERROR and
\* writes nothing; otherwise, for the factor 1x it writes only 0x10 to
\* SCALE_CTRL0, and for any other factor z it writes 0x00 to SCALE_CTRL0 and
\* then the low byte of z >> s to SCALE_CTRL1, with s = 1 for 320x240 and
\* 480x272, 2 for 640x480 and 0 for 160x120 and 800x480; the second write is
\* left out only if the first failed, and the call returns OV5640_OK exactly
\* when no transaction failed.
C24_ZoomScaling ==
  call.op = "ZoomConfig"
    => /\ Len(call.log) >= 1
       /\ \A i \in 1..Len(call.log) :
            i <= 4 => (call.log[i][1] = "R" /\ call.log[i][2] = SizeRegs[i])
       /\ regs = call.preRegs
       /\ ((\E i \in 1..Len(call.log) : i <= 4 /\ call.log[i][4] # OV5640_OK)
             \/ PresetIn(call.preRegs) = << >>)
            => (call.ret = OV5640_ERROR /\ WritePos(call.log) = {} /\ Len(call.log) <= 4)
       /\ ((\A i \in 1..Len(call.log) : i <= 4 => call.log[i][4] = OV5640_OK)
             /\ PresetIn(call.preRegs) # << >>)
            => /\ Len(call.log) > 4
               /\ IsPrefix(RegWrites(call.log),
                           ZoomWritesFor(call.args[1], PresetIn(call.preRegs)[1]))
               /\ Len(call.log) = 4 + Len(RegWrites(call.log))
               /\ AllOK(call.log)
                    => /\ call.ret = OV5640_OK
                       /\ RegWrites(call.log)
                            = ZoomWritesFor(call.args[1], PresetIn(call.preRegs)[1])
               /\ ~AllOK(call.log)
                    => /\ call.ret = OV5640_ERROR
                       /\ Last(call.log)[4] # OV5640_OK

\* A factor wider than a byte at 640x480: 324 >> 2 = 81.
C24_WideFactorAtVGA ==
  /\ call.op = "ZoomConfig"
  /\ call.args = <<324>>
  /\ SizeIn(call.preRegs) = <<640, 480>>
  /\ call.ret = OV5640_OK
  /\ RegWrites(call.log) = << <<"OV5640_SCALE_CTRL0", 0>>, <<"OV5640_SCALE_CTRL1", 81>> >>

\* C25 (as stated): OV5640_SetPCLK returns OV5640_ERROR whenever at least one
\* of its two writes failed, whatever the two status codes, and OV5640_OK only
\* when both succeeded.
C25_AnyFailureReported ==
  call.op = "SetPCLK"
    => /\ Len(call.log) = 2
       /\ ~AllOK(call.log) => call.ret = OV5640_ERROR
       /\ call.ret = OV5640_OK => AllOK(call.log)

PatchedRegs == {"OV5640_TIMING_TC_REG21", "OV5640_SYSREM_RESET02", "OV5640_CLOCK_ENABLE02"}

\* The registers after the three JPEG patches applied to registers r
Patched(r) ==
  [r EXCEPT !["OV5640_TIMING_TC_REG21"] = Or8(@, 32),
            !["OV5640_SYSREM_RESET02"] = And8(@, 227),
            !["OV5640_CLOCK_ENABLE02"] = Or8(@, 40)]

\* The patches of a JPEG call whose transactions all succeeded, and the calls
\* with another supported format
JpegPatchEffect ==
  /\ (call.args[1] = OV5640_JPEG /\ AllOK(call.log))
       => /\ Shape(call.log) = FormatShape(OV5640_JPEG)
          /\ Len(call.log) = 8
          /\ regs = Patched(call.preRegs)
  /\ (call.args[1] \in SupportedFormats \ {OV5640_JPEG})
       => /\ \A i \in 1..Len(call.log) :
               call.log[i][1] = "W" /\ call.log[i][2] \notin PatchedRegs
          /\ regs = call.preRegs

\* C26 (as stated): OV5640_SetPixelFormat for JPEG issues, after the two writes
\* of its format table, the read and the write of TIMING_TC_REG21 (bit 5 set),
\* of SYSREM_RESET02 (bits 4, 3, 2 cleared) and of CLOCK_ENABLE02 (bits 5 and 3
\* set), every other bit kept, and none of these transactions after a
\* transaction of the call that failed; with one of the four other formats the
\* call reads no register and leaves the three registers alone.
C26_JpegPatches ==
  call.op = "SetPixelFormat"
    => /\ JpegPatchEffect
       /\ call.args[1] = OV5640_JPEG
            => \A k \in 1..Len(call.log) :
                 call.log[k][4] # OV5640_OK => Len(call.log) = k

\* An OV5640_Init_General_Mode call on an uninitialized handle in which every
\* step succeeded: it returned OV5640_OK, no transaction failed, and the
\* autofocus firmware reported ready within the polling budget.
GeneralSuccess ==
  /\ call.op = "Init_General_Mode"
  /\ call.pre.IsInitialized = 0
  /\ call.ret = OV5640_OK
  /\ AllOK(call.log)
  /\ Last(call.log) = <<"R", "0x3029", 112, OV5640_OK>>

\* C27 (as stated): after an OV5640_Init_General_Mode call on an uninitialized
\* handle in which every step succeeded the handle is initialized, and an
\* OV5640_Init call made next issues no bus transaction.
C27_GeneralModeSetsFlag ==
  GeneralSuccess
    => /\ obj.IsInitialized = 1
       /\ OV5640_Init(obj, Machine(regs, NoFault), OV5640_R640x480, OV5640_RGB565).m.log = << >>

\* C28: after an OV5640_SetPolarities call that returned OV5640_OK the
\* polarity control register holds PCLK in bit 5, HREF in bit 1 and VSYNC in
\* bit 0, and OV5640_GetPolarities on these registers returns OV5640_OK with
\* the three values that were set; every OV5640_GetPolarities call whose read
\* succeeds returns OV5640_OK with bits 5, 1 and 0 of the register as it was
\* when the call was made, and writes nothing.
C28_PolarityRoundTrip ==
  /\ (call.op = "SetPolarities" /\ call.ret = OV5640_OK)
       => /\ regs["OV5640_POLARITY_CTRL"]
               = (call.args[2] * 32) + (call.args[3] * 2) + call.args[4]
          /\ OV5640_GetPolarities(Machine(regs, NoFault), FALSE).ret = OV5640_OK
          /\ OV5640_GetPolarities(Machine(regs, NoFault), FALSE).out
               = <<call.args[2], call.args[3], call.args[4]>>
  /\ (call.op = "GetPolarities" /\ ~call.args[1] /\ AllOK(call.log))
       => /\ Len(call.log) = 1
          /\ call.log[1][1] = "R" /\ call.log[1][2] = "OV5640_POLARITY_CTRL"
          /\ call.ret = OV5640_OK
          /\ call.out = << (call.preRegs["OV5640_POLARITY_CTRL"] \div 32) % 2,
                           (call.preRegs["OV5640_POLARITY_CTRL"] \div 2) % 2,
                           call.preRegs["OV5640_POLARITY_CTRL"] % 2 >>
          /\ regs = call.preRegs

\* PCLK high, HREF low and VSYNC low (bit 0 set) read back.
C28_ReadsBackHighLowLow ==
  /\ call.op = "GetPolarities"
  /\ call.preRegs["OV5640_POLARITY_CTRL"] = 33
  /\ call.ret = OV5640_OK
  /\ call.out = <<OV5640_POLARITY_PCLK_HIGH, OV5640_POLARITY_HREF_LOW, OV5640_POLARITY_VSYNC_LOW>>

\* C29: OV5640_Focus_Single and OV5640_Focus_Send_Single issue the same single
\* write, 0x03 to 0x3022, and after it OV5640_Focus_Single only reads 0x3029,
\* as every OV5640_Focus_Read_Single call does once; OV5640_Focus_Read_Single
\* whose read succeeds returns 1 exactly when it read 0x10; and
\* OV5640_Focus_Single returns OV5640_OK exactly when one of its polls read a
\* value for which OV5640_Focus_Read_Single returns 1, OV5640_ERROR otherwise.
C29_BlockingMatchesPolling ==
  /\ call.op = "Focus_Send_Single"
       => call.log = << <<"W", "0x3022", 3, OV5640_OK>> >> /\ call.ret = OV5640_OK
  /\ call.op = "Focus_Read_Single"
       => /\ Len(call.log) = 1
          /\ call.log[1][1] = "R" /\ call.log[1][2] = "0x3029"
          /\ AllOK(call.log) => (call.ret = 1 <=> call.log[1][3] = 16)
          /\ call.ret \in {0, 1}
  /\ call.op = "Focus_Single"
       => /\ Len(call.log) >= 2
          /\ call.log[1] = OV5640_Focus_Send_Single(Machine(call.preRegs, NoFault)).m.log[1]
          /\ \A i \in 2..Len(call.log) : call.log[i][1] = "R" /\ call.log[i][2] = "0x3029"
          /\ call.ret \in {OV5640_OK, OV5640_ERROR}
          /\ call.ret = OV5640_OK
               <=> \E i \in 2..Len(call.log) :
                     OV5640_Focus_Read_Single(Machine(call.preRegs, NoFault),
                                              call.log[i][3], 0).ret = 1

\* The 200th poll of OV5640_Focus_Single is the first to read 0x10, after 199
\* polls that read the firmware's idle value.
C29_FocusedAtPoll200 ==
  /\ call.op = "Focus_Single"
  /\ call.args[1] = [ready |-> 200, busy |-> 112]
  /\ call.ret = OV5640_OK
  /\ Len(call.log) = 201

DelayRunning == call.op = "Delay" /\ call.pc = "loop"

DelayReturned == call.op = "Delay" /\ call.pc = "returned"

\* The step of the tick is no larger than the part of the 32-bit range in
\* which the loop condition of the call is false.
StrideFits ==
  call.args[1] = U32(0, 0) \/ ~Less32(Sub32(U32(0, 0), call.args[1]), call.args[2])

====
